---- MODULE Spec2Model ----
(***************************************************************************)
(* A model of load.py (DatabaseLoader): the per-catchment transactional    *)
(* load of load_hand_data with its compensating cleanup, the discovery of  *)
(* catchment units, and the reference-layer loader load_nwm_features.      *)
(*                                                                         *)
(* The database is a record of tables.  `db` is the committed state, the   *)
(* one an external reader observes; `tx` is the working copy of the        *)
(* transaction opened by `with self.engine.begin()`.  Leaving the with     *)
(* block normally commits the working copy, leaving it by an exception     *)
(* discards it.                                                            *)
(*                                                                         *)
(* The storage backend, the file readers and the database are external:    *)
(* every call to them either returns a value drawn from a bounded set or   *)
(* raises.                                                                 *)
(***************************************************************************)
EXTENDS Integers, Sequences, FiniteSets, TLC

\* ---------------------------------------------------------------- bounds
MaxUnits == 2     \* catchment units returned by _get_catchment_dirs
MaxGpkg == 2      \* geometry files listed for one unit
MaxCsv == 1       \* hydrotable files listed for one unit
MaxRows == 3      \* rows of one hydrotable file
MaxRem == 2       \* REM raster files listed for one unit
MaxCr == 2        \* catchment raster files listed for one unit
MaxFeatures == 3  \* records of the nwm_streams layer
MaxCalls == 3     \* calls of the id functions in one run
MaxLoaders == 3   \* DatabaseLoader objects constructed on one database
MaxMissing == 2   \* columns missing from (or alone present in) a hydrotable row
MaxMerge == 3     \* geometry files whose merge is taken in two orders
MaxCells == 2     \* cells the geometries of those files are made of

VARIABLES
    hand_version_id,   \* self.hand_version_id
    nwm_version_id,    \* self.nwm_version_id
    db,                \* committed tables
    tx,                \* <<>> when no transaction is open, else <<working tables>>
    pc,                \* position in load_hand_data
    catchment_dirs,    \* the list load_hand_data iterates over
    idx,               \* position of the loop in catchment_dirs (1-based)
    catchment_id,      \* the local variable of load_hand_data
    listing,           \* names last listed in the unit's directory
    gpkg_files,        \* local of load_catchment_geometry
    merged_geom,       \* local of load_catchment_geometry: <<>> is None
    csv_files,         \* local of load_hydrotables
    df,                \* rows of the hydrotable being inserted
    rem_files,         \* local of load_rasters
    catchment_files,   \* local of load_rasters
    rem_raster_ids,    \* local of _insert_rem_rasters / load_rasters
    k,                 \* index of the file loop in progress
    j,                 \* index of the row loop in progress
    stmts,             \* SQL statements executed in the current iteration
    units,             \* per unit: what was found for it and how it ended
    tmp,               \* the temporary directories and files that exist
    outcomes,          \* how each geometry file of the last load_catchment_geometry read
    fs,                \* the files below the root given to _get_catchment_dirs
    s3_dirs,           \* <<>> or <<what _get_catchment_dirs returned for the S3 root>>
    local_dirs,        \* <<>> or <<what it returned for the local root>>
    unit_files,        \* <<>> or <<the last call of _get_files on a unit, with its result>>
    gpkg_uri,          \* the argument of load_nwm_features
    nwm_streams,       \* the records of the nwm_streams layer of that file
    loaded,            \* what temp_load_gpkg returned
    dropped_count,     \* local of load_nwm_features
    npc,               \* position in load_nwm_features
    calls,             \* the calls of the two id functions made so far, with results
    gdfs,              \* the GeoDataFrames read from the geometry files of a unit
    order,             \* a second order of the same files
    merged_ab,         \* merged_geom accumulated over gdfs in the order listed
    merged_ba,         \* merged_geom accumulated over gdfs in the second order
    mk,                \* index of the merge loop
    loaders,           \* DatabaseLoader objects constructed so far
    db0,               \* the tables before the first of them was constructed
    hydro_row,         \* the row given to _prepare_hydro_params
    hydro_params,      \* <<>> or <<what _prepare_hydro_params returned>>
    first_run          \* <<>> or <<the earlier run of load_hand_data on this database>>

vars == <<hand_version_id, nwm_version_id, db, tx, pc, catchment_dirs, idx,
          catchment_id, listing, gpkg_files, merged_geom, csv_files, df,
          rem_files, catchment_files, rem_raster_ids, k, j, stmts, units,
          tmp, outcomes, fs, s3_dirs, local_dirs, unit_files, gpkg_uri, nwm_streams, loaded, dropped_count,
          npc, calls, gdfs, order, merged_ab, merged_ba, mk, loaders, db0,
          hydro_row, hydro_params, first_run>>

\* The state of load_hand_data, of the discovery and of load_nwm_features.
hand_vars == <<pc, catchment_dirs, idx, catchment_id, listing, gpkg_files,
               merged_geom, csv_files, df, rem_files, catchment_files,
               rem_raster_ids, k, j, stmts, units, tmp, outcomes, tx>>
discovery_vars == <<fs, s3_dirs, local_dirs, unit_files>>
nwm_vars == <<gpkg_uri, nwm_streams, loaded, dropped_count, npc>>

\* The state of the calls of single functions: the id functions, the merge
\* of geometry files, the construction of loaders, _prepare_hydro_params.
identity_vars == <<calls>>
merge_vars == <<gdfs, order, merged_ab, merged_ba, mk>>
construct_vars == <<loaders, db0>>
params_vars == <<hydro_row, hydro_params>>
fn_vars == <<identity_vars, merge_vars, construct_vars, params_vars>>

\* ------------------------------------------------------------ values
\* Python's None and an unbound local, as values comparable with an id.
None == <<"None">>
Unbound == <<"unbound">>

\* uuid.uuid5(namespace, name): a fixed function of the namespace and the
\* name; distinct arguments give distinct ids (SHA-1 collisions are not
\* modelled).  str(uuid) is the canonical text of the id.
NAMESPACE_DNS == "NAMESPACE_DNS"
uuid5(namespace, name) == <<"uuid5", namespace, name>>
UuidStr(u) == <<"str", u>>

\* generate_deterministic_uuid.
generate_deterministic_uuid(input_string) ==
    UuidStr(uuid5(NAMESPACE_DNS, input_string))

\* Mutant of _generate_uuid: the namespace is taken from the loader.
_generate_uuidSalted(input_str) == UuidStr(uuid5(hand_version_id, input_str))

\* _generate_uuid.
_generate_uuid(input_str) == UuidStr(uuid5(NAMESPACE_DNS, input_str))

\* geometry.wkt: the text of a geometry, a function of the region it covers.
wkt(geom) == <<"WKT", geom>>

\* An S3 URI and a local path; is_s3_path and parse_s3_path read them.
S3Uri(bucket, key) == [scheme |-> "s3", bucket |-> bucket, path |-> key]
LocalPath(path) == [scheme |-> "file", bucket |-> <<>>, path |-> path]
is_s3_path(path) == path.scheme = "s3"
parse_s3_path(s3_uri) == <<s3_uri.bucket, s3_uri.path>>

\* The root: a local directory, and the same tree as an S3 prefix.
LocalRoot == <<"d", "a", "t", "a">>
S3Bucket == <<"b", "k", "t">>
S3Prefix == <<"d", "a", "t", "a">>

\* os.path.join(directory, f) / f"s3://{bucket}/{key}".
PathJoin(directory, f) == <<directory, f>>

\* A file name: the stem that the pattern is looked up in, a number, the extension.
FileName(stem, n, ext) == [stem |-> stem, n |-> n, ext |-> ext]

\* The names a directory listing can hold for one file kind.
Names(stem, ext, n) == [i \in 1..n |-> FileName(stem, i, ext)]

\* _get_files: the listed names with the extension and the pattern, as paths.
_get_files(directory, names, extension, pattern) ==
    LET match(f) == f.ext = extension /\ f.stem = pattern
        kept == SelectSeq(names, match)
    IN  [i \in 1..Len(kept) |-> PathJoin(directory, kept[i])]

\* -------------------------------------------------------------- tables
EmptyTables ==
    [ Hand_Versions          |-> <<>>,
      Catchments             |-> {},
      Hydrotables            |-> <<>>,
      HAND_REM_Rasters       |-> {},
      HAND_Catchment_Rasters |-> {},
      NWM_Features           |-> {} ]

\* INSERT INTO Hand_Versions (hand_version_id) VALUES (:version), one row.
InsertHandVersions(tables, version) ==
    [tables EXCEPT !.Hand_Versions = Append(@, [hand_version_id |-> version])]

\* Mutant of _initialize_hand_version: a plain INSERT into a table without
\* a key on hand_version_id.
_initialize_hand_versionAlwaysInserts(tables, version) ==
    InsertHandVersions(tables, version)

\* _initialize_hand_version: the INSERT with ON CONFLICT (hand_version_id)
\* DO NOTHING in a transaction of its own, by what it leaves committed.
_initialize_hand_version(tables, version) ==
    IF \E i \in DOMAIN tables.Hand_Versions :
            tables.Hand_Versions[i].hand_version_id = version
        THEN tables
        ELSE InsertHandVersions(tables, version)

\* Mutant of ExitWith: the block commits whatever way it is left.
ExitWithAlwaysCommits(committed, working, raised) == working

\* What `with self.engine.begin()` leaves committed when the block is left:
\* the working copy on a normal exit, the old committed state on an exception.
ExitWith(committed, working, raised) ==
    IF raised THEN committed ELSE working

\* ------------------------------------------------------- hydrotable rows
\* A row of a rating table: a function from the columns it has to their values.
HydroRow(file, n) == ("HydroID" :> <<file, n>>) @@ ("stage" :> n)

\* Mutant of safe_get: the row is never read.
safe_getAlwaysDefault(row, key, default) == default

\* safe_get of _prepare_hydro_params.
safe_get(row, key, default) ==
    IF key \in DOMAIN row THEN row[key] ELSE default

\* _prepare_hydro_params: the parameters of one Hydrotables insert.
_prepare_hydro_params(row, catch_id, hand_id, nwm_ver) ==
    [ catch_id         |-> catch_id,
      hand_id          |-> hand_id,
      hydro_id         |-> safe_get(row, "HydroID", None),
      nwm_ver          |-> nwm_ver,
      feat_id          |-> safe_get(row, "feature_id", None),
      order_id         |-> safe_get(row, "order", 0),
      num_cells        |-> safe_get(row, "Number of Cells", 0),
      surf_area        |-> safe_get(row, "SurfaceArea (m2)", None),
      bed_area         |-> safe_get(row, "BedArea (m2)", None),
      top_width        |-> safe_get(row, "TopWidth (m)", None),
      length           |-> safe_get(row, "LENGTHKM", None),
      area             |-> safe_get(row, "AREASQKM", None),
      wet_perim        |-> safe_get(row, "WettedPerimeter (m)", None),
      hydraulic_r      |-> safe_get(row, "HydraulicRadius (m)", None),
      wet_area         |-> safe_get(row, "WetArea (m2)", None),
      volume           |-> safe_get(row, "Volume (m3)", None),
      slope            |-> safe_get(row, "SLOPE", None),
      manning_n        |-> safe_get(row, "ManningN", None),
      stage            |-> safe_get(row, "stage", None),
      discharge        |-> safe_get(row, "discharge_cms", None),
      def_discharge    |-> safe_get(row, "default_discharge_cms", None),
      def_volume       |-> safe_get(row, "default_Volume (m3)", None),
      def_wet_area     |-> safe_get(row, "default_WetArea (m2)", None),
      def_hydraulic_r  |-> safe_get(row, "default_HydraulicRadius (m)", None),
      def_manning_n    |-> safe_get(row, "default_ManningN", None),
      bath_source      |-> safe_get(row, "Bathymetry_source", None),
      subdiv_applied   |-> safe_get(row, "subdiv_applied", FALSE),
      overbank_n       |-> safe_get(row, "overbank_n", None),
      channel_n        |-> safe_get(row, "channel_n", None),
      subdiv_discharge |-> safe_get(row, "subdiv_discharge_cms", None),
      calb_applied     |-> safe_get(row, "calb_applied", FALSE),
      lake_id          |-> safe_get(row, "LakeID", None) ]

\* The Hydrotables row that the INSERT of _insert_hydro_records writes for
\* one set of parameters (column <- parameter, as the statement pairs them).
HydrotablesRow(p) ==
    [ catchment_id     |-> p.catch_id,
      hand_version_id  |-> p.hand_id,
      HydroID          |-> p.hydro_id,
      nwm_version_id   |-> p.nwm_ver,
      nwm_feature_id   |-> p.feat_id,
      order_id         |-> p.order_id,
      number_of_cells  |-> p.num_cells,
      surface_area_m2  |-> p.surf_area,
      bed_area_m2      |-> p.bed_area,
      top_width_m      |-> p.top_width,
      length_km        |-> p.length,
      area_sq_km       |-> p.area,
      wetted_perimeter_m |-> p.wet_perim,
      hydraulic_radius_m |-> p.hydraulic_r,
      wet_area_m2      |-> p.wet_area,
      volume_m3        |-> p.volume,
      slope            |-> p.slope,
      manning_n        |-> p.manning_n,
      stage            |-> p.stage,
      discharge_cms    |-> p.discharge,
      default_discharge_cms |-> p.def_discharge,
      default_volume_m3 |-> p.def_volume,
      default_wet_area_m2 |-> p.def_wet_area,
      default_hydraulic_radius_m |-> p.def_hydraulic_r,
      default_manning_n |-> p.def_manning_n,
      bathymetry_source |-> p.bath_source,
      subdiv_applied   |-> p.subdiv_applied,
      overbank_n       |-> p.overbank_n,
      channel_n        |-> p.channel_n,
      subdiv_discharge_cms |-> p.subdiv_discharge,
      calb_applied     |-> p.calb_applied,
      lake_id          |-> p.lake_id ]

\* ------------------------------------------------------------ geometry
\* A geometry is the set of cells it covers.  A GeoDataFrame is the set of
\* the geometries of its rows; the file number i of a unit, when it reads
\* and is not empty, holds one polygon of its own.
GeoDataFrame(directory, i, kind) ==
    IF kind = "nonempty" THEN {{<<directory, i>>}} ELSE {}

\* GeoDataFrame.union_all().
union_all(gdf) == UNION gdf

\* Mutant of _merge_geometries: the geometry merged so far is dropped.
_merge_geometriesKeepsNew(existing_geom, new_gdf) == <<union_all(new_gdf)>>

\* _merge_geometries; existing_geom is <<>> for None, else <<geometry>>.
_merge_geometries(existing_geom, new_gdf) ==
    IF existing_geom = <<>>
        THEN <<union_all(new_gdf)>>
        ELSE <<existing_geom[1] \cup union_all(new_gdf)>>

\* Mutant of MergeFile: the `if not gdf.empty` test is missing.
MergeFileEvenIfEmpty(existing_geom, gdf) == _merge_geometries(existing_geom, gdf)

\* The body of the per-file try of load_catchment_geometry, for a file that
\* was read: merge it unless it is empty.
MergeFile(existing_geom, gdf) ==
    IF gdf # {} THEN _merge_geometries(existing_geom, gdf) ELSE existing_geom

\* Mutant of AfterFile: a file that fails to download or read voids what
\* was merged before it.
AfterFileErrorVoids(existing_geom, directory, n, kind) ==
    IF kind \in {"unreadable", "download_failed"} THEN <<>>
    ELSE MergeFile(existing_geom, GeoDataFrame(directory, n, kind))

\* The try of load_catchment_geometry for file n of a directory: merged_geom
\* after it.  A download or read error is caught (`except Exception:
\* continue`) and leaves merged_geom as it was.
AfterFile(existing_geom, directory, n, kind) ==
    IF kind \in {"unreadable", "download_failed"} THEN existing_geom
    ELSE MergeFile(existing_geom, GeoDataFrame(directory, n, kind))

\* ------------------------------------------------------ SQL statements
\* INSERT INTO Catchments (catchment_id, hand_version_id, geometry).
InsertCatchments(tables, catch_id, hand_id, geom) ==
    [tables EXCEPT !.Catchments = @ \cup
        {[catchment_id |-> catch_id, hand_version_id |-> hand_id, geometry |-> geom]}]

\* Mutant of InsertHydrotables: the row replaces the rows written before it.
InsertHydrotablesOverwrites(tables, params) ==
    [tables EXCEPT !.Hydrotables = <<HydrotablesRow(params)>>]

\* INSERT INTO Hydrotables (...), one row.
InsertHydrotables(tables, params) ==
    [tables EXCEPT !.Hydrotables = Append(@, HydrotablesRow(params))]

\* INSERT INTO HAND_REM_Rasters (rem_raster_id, catchment_id, hand_version_id, raster_path).
InsertRemRasters(tables, id, catch_id, version, path) ==
    [tables EXCEPT !.HAND_REM_Rasters = @ \cup
        {[rem_raster_id |-> id, catchment_id |-> catch_id,
          hand_version_id |-> version, raster_path |-> path]}]

\* INSERT INTO HAND_Catchment_Rasters (catchment_raster_id, rem_raster_id, raster_path).
InsertCatchmentRasters(tables, id, rem_id, path) ==
    [tables EXCEPT !.HAND_Catchment_Rasters = @ \cup
        {[catchment_raster_id |-> id, rem_raster_id |-> rem_id, raster_path |-> path]}]

\* Mutant of CleanupTables: the Catchments rows are deleted first.
CleanupTablesCatchmentsFirst == <<"Catchments", "HAND_REM_Rasters", "Hydrotables">>

\* The three DELETEs of _cleanup_catchment, in the order the code issues them.
CleanupTables == <<"Hydrotables", "HAND_REM_Rasters", "Catchments">>

\* Mutant of DeleteWhere: the DELETE FROM Hydrotables and the DELETE FROM
\* HAND_REM_Rasters find no row.
DeleteWhereOnlyCatchments(tables, table, catch_id, hand_id) ==
    IF table = "Catchments"
        THEN [tables EXCEPT !.Catchments =
                 {r \in @ : ~(r.catchment_id = catch_id /\ r.hand_version_id = hand_id)}]
        ELSE tables

\* DELETE FROM <table> WHERE catchment_id = :catch_id AND hand_version_id = :hand_id.
DeleteWhere(tables, table, catch_id, hand_id) ==
    LET keep(r) == ~(r.catchment_id = catch_id /\ r.hand_version_id = hand_id)
    IN  IF table = "Hydrotables"
            THEN [tables EXCEPT !.Hydrotables = SelectSeq(@, keep)]
        ELSE IF table = "HAND_REM_Rasters"
            THEN [tables EXCEPT !.HAND_REM_Rasters = {r \in @ : keep(r)}]
        ELSE [tables EXCEPT !.Catchments = {r \in @ : keep(r)}]

\* The body of the transaction of _cleanup_catchment.
RECURSIVE CleanupDeletes(_, _, _, _)
CleanupDeletes(tables, n, catch_id, hand_id) ==
    IF n > Len(CleanupTables) THEN tables
    ELSE CleanupDeletes(DeleteWhere(tables, CleanupTables[n], catch_id, hand_id),
                        n + 1, catch_id, hand_id)

\* A table with a primary key refuses the INSERT of a row whose key it holds
\* (Catchments.catchment_id, HAND_REM_Rasters.rem_raster_id and
\* HAND_Catchment_Rasters.catchment_raster_id are the keys of the persisted
\* schema); the statement then raises.
HasKey(rows, column, key) == \E r \in rows : r[column] = key

\* The statements as logged in stmts.
Stmt(op, table, key) == [op |-> op, table |-> table, key |-> key]

\* ST_GeomFromText(:geom, 5070): the geometry a well-known text denotes.
ST_GeomFromText(text) == text[2]

\* ----------------------------------------------------- temporary files
\* An entry of temporary storage: a directory (file is <<>>) or a file in a
\* directory.  Directory 0 is the system's temporary directory.
TmpEntry(dir, file) == [dir |-> dir, file |-> file]

\* tempfile.TemporaryDirectory(): the directory made for the call of
\* load_catchment_geometry on the unit at position n.
TemporaryDirectory(n) == TmpEntry(n, <<>>)

\* tempfile.NamedTemporaryFile(): the file made by _read_csv.
NamedTemporaryFile(n) == TmpEntry(0, <<n>>)

\* _download_if_s3: the local path of a file, which is
\* os.path.join(tmp_dir, os.path.basename(file_path)) for a file on S3.  A
\* path joined from a directory is on S3 exactly when the directory is.
_download_if_s3(file_path, tmp_dir) ==
    IF is_s3_path(file_path[1]) THEN TmpEntry(tmp_dir.dir, <<file_path[2]>>)
    ELSE file_path

\* What download_s3_file has put into temporary storage once the try of one
\* geometry file is over: nothing for a local file or a failed download.
Downloaded(file_path, tmp_dir, kind) ==
    IF is_s3_path(file_path[1]) /\ kind # "download_failed"
        THEN {_download_if_s3(file_path, tmp_dir)}
        ELSE {}

\* Mutant of TemporaryDirectoryExit: the directory is made with mkdtemp and
\* never removed.
TemporaryDirectoryNoCleanup(files, tmp_dir) == files

\* Leaving `with tempfile.TemporaryDirectory() as tmpdir`, normally or by an
\* exception: the directory and all it holds are removed.
TemporaryDirectoryExit(files, tmp_dir) == {f \in files : f.dir # tmp_dir.dir}

\* Leaving `with tempfile.NamedTemporaryFile() as tmp`: the file is removed.
NamedTemporaryFileExit(files, tmp_file) == files \ {tmp_file}

\* _read_csv, by its effect on temporary storage, whether it returns or
\* raises: a file on S3 is downloaded into a NamedTemporaryFile inside a
\* with block; a local file is read in place.
_read_csv(files, csv_path, n) ==
    IF is_s3_path(csv_path[1])
        THEN NamedTemporaryFileExit(files \cup {NamedTemporaryFile(n)},
                                    NamedTemporaryFile(n))
        ELSE files

\* How the try of one geometry file can end.
ReadKinds(file_path) ==
    {"nonempty", "empty", "unreadable"}
    \cup (IF is_s3_path(file_path[1]) THEN {"download_failed"} ELSE {})

\* ======================================================= load_hand_data
locals == <<listing, gpkg_files, merged_geom, csv_files, df, rem_files,
            catchment_files, rem_raster_ids, k, j>>

\* The directory of the unit in progress.
catchment_dir == catchment_dirs[idx]

\* Files of other kinds that every unit directory also holds.
OtherFiles ==
    <<FileName("branch_polygons", 1, ".gpkg"), FileName("src_full", 1, ".csv"),
      FileName("dem_thalweg", 1, ".tif")>>

\* What is recorded about a unit when its iteration starts.
NewUnit ==
    [ outcome  |-> "in_progress",   \* then "committed", "skipped" or "failed"
      failedIn |-> "none",          \* the step that raised
      id       |-> None,            \* the id load_catchment_geometry returned
      gpkg     |-> -1,              \* geometry files listed (-1: not listed yet)
      nonempty |-> 0,               \* geometry files read and not empty
      csv      |-> 0,               \* hydrotable files read
      rows     |-> 0,               \* rows of the hydrotable files read
      rem      |-> 0,               \* REM raster files in the directory
      cr       |-> 0 ]              \* catchment raster files in the directory

\* The state after construction: the hand version is registered, nothing
\* else is loaded.
Constructed ==
    /\ hand_version_id = "v3.0"
    /\ nwm_version_id = "3.0"

\* The database of a first run: only the hand version is registered.
FreshDatabase == db = _initialize_hand_version(EmptyTables, "v3.0")

\* load_hand_data has not been called.
HandIdle ==
    /\ tx = <<>>
    /\ pc = "start"
    /\ catchment_dirs = <<>>
    /\ idx = 1
    /\ catchment_id = Unbound
    /\ listing = <<>>
    /\ gpkg_files = <<>>
    /\ merged_geom = <<>>
    /\ csv_files = <<>>
    /\ df = <<>>
    /\ rem_files = <<>>
    /\ catchment_files = <<>>
    /\ rem_raster_ids = <<>>
    /\ k = 1
    /\ j = 1
    /\ stmts = <<>>
    /\ units = <<>>
    /\ tmp = {}
    /\ outcomes = <<>>

\* _get_catchment_dirs has not been called on its own.
DiscoveryIdle ==
    /\ fs = {}
    /\ s3_dirs = <<>>
    /\ local_dirs = <<>>
    /\ unit_files = <<>>

\* load_nwm_features has not been called.
NwmIdle ==
    /\ gpkg_uri = <<>>
    /\ nwm_streams = <<>>
    /\ loaded = <<>>
    /\ dropped_count = 0
    /\ npc = "idle"

\* The database has seen no run of load_hand_data before.
NoFirstRun == first_run = <<>>

\* No single function has been called on its own.
IdentityIdle == calls = <<>>

MergeIdle ==
    /\ gdfs = <<>>
    /\ order = <<>>
    /\ merged_ab = <<>>
    /\ merged_ba = <<>>
    /\ mk = 1

ConstructIdle ==
    /\ loaders = 1
    /\ db0 = EmptyTables

ParamsIdle ==
    /\ hydro_row = <<>>
    /\ hydro_params = <<>>

FnIdle ==
    /\ IdentityIdle
    /\ MergeIdle
    /\ ConstructIdle
    /\ ParamsIdle

Init ==
    /\ Constructed
    /\ FreshDatabase
    /\ HandIdle
    /\ NoFirstRun
    /\ DiscoveryIdle
    /\ NwmIdle
    /\ FnIdle

\* The locals of the functions called for a unit are gone once they return.
ResetLocals ==
    /\ listing' = <<>>
    /\ gpkg_files' = <<>>
    /\ merged_geom' = <<>>
    /\ csv_files' = <<>>
    /\ df' = <<>>
    /\ rem_files' = <<>>
    /\ catchment_files' = <<>>
    /\ rem_raster_ids' = <<>>
    /\ k' = 1
    /\ j' = 1

\* Mutant of AfterLoadCatchmentGeometry: the None test is missing.
AfterLoadCatchmentGeometryNoSkip(id) == "load_hydrotables"

\* if catchment_id is None: ... continue; else load_hydrotables comes next.
AfterLoadCatchmentGeometry(id) ==
    IF id = None THEN "skip" ELSE "load_hydrotables"

\* An exception leaves the with block of load_hand_data: the transaction is
\* rolled back and control reaches the except clause.
RaiseLeaving(where, files) ==
    /\ db' = ExitWith(db, tx[1], TRUE)
    /\ tx' = <<>>
    /\ pc' = "except"
    /\ units' = [units EXCEPT ![idx].outcome = "failed", ![idx].failedIn = where]
    /\ tmp' = files
    /\ outcomes' = <<>>
    /\ ResetLocals
    /\ UNCHANGED <<discovery_vars, nwm_vars, fn_vars, first_run, hand_version_id, nwm_version_id, catchment_dirs, idx,
                   catchment_id, stmts>>

\* The same, raised where no temporary file is being made.
Raise(where) == RaiseLeaving(where, tmp)

\* The loop goes on to the next unit.
Continue ==
    /\ idx' = idx + 1
    /\ pc' = "for"

\* The roots load_hand_data can be given, and the unit directory number i
\* below a root.
HandDirs == {S3Uri(S3Bucket, S3Prefix), LocalPath(LocalRoot)}
UnitDir(hand_dir, i) ==
    [scheme |-> hand_dir.scheme, bucket |-> hand_dir.bucket, path |-> <<hand_dir.path, i>>]

\* load_hand_data up to the loop: the units discovered, in discovery order
\* (the units of the earlier run when the database has seen one).
\* What each unit holds is drawn when it is listed, so every assignment of
\* contents to positions of the order is covered.
LoadHandData ==
    /\ pc = "start"
    /\ \E n \in 0..MaxUnits, hand_dir \in HandDirs :
          /\ first_run # <<>> =>
                 n = first_run[1].n /\ hand_dir = first_run[1].hand_dir
          /\ catchment_dirs' = [i \in 1..n |-> UnitDir(hand_dir, i)]
    /\ idx' = 1
    /\ pc' = "for"
    /\ UNCHANGED <<discovery_vars, nwm_vars, fn_vars, first_run, tmp, outcomes, hand_version_id, nwm_version_id, db, tx, catchment_id, locals,
                   stmts, units>>

\* for ... in enumerate(catchment_dirs): try: with self.engine.begin().
BeginUnit ==
    /\ pc = "for"
    /\ idx <= Len(catchment_dirs)
    /\ tx' = <<db>>
    /\ pc' = "load_catchment_geometry"
    /\ stmts' = <<>>
    /\ units' = Append(units, NewUnit)
    /\ UNCHANGED <<discovery_vars, nwm_vars, fn_vars, first_run, tmp, outcomes, hand_version_id, nwm_version_id, db, catchment_dirs, idx,
                   catchment_id, locals>>

\* The loop is exhausted: load_hand_data returns.
Return ==
    /\ pc = "for"
    /\ idx > Len(catchment_dirs)
    /\ pc' = "done"
    /\ UNCHANGED <<discovery_vars, nwm_vars, fn_vars, first_run, tmp, outcomes, hand_version_id, nwm_version_id, db, tx, catchment_dirs, idx,
                   catchment_id, locals, stmts, units>>

\* ------------------------------------------- load_catchment_geometry
\* gpkg_files = self._get_files(...); if not gpkg_files: return None.
ListGpkg ==
    /\ pc = "load_catchment_geometry"
    /\ \E n \in 0..MaxGpkg :
        LET names == Names("gw_catchments", ".gpkg", n) \o OtherFiles
            files == _get_files(catchment_dir, names, ".gpkg", "gw_catchments")
        IN  /\ units' = [units EXCEPT ![idx].gpkg = Len(files)]
            /\ IF files = <<>>
                  THEN /\ catchment_id' = None
                       /\ pc' = AfterLoadCatchmentGeometry(None)
                       /\ listing' = <<>>
                       /\ gpkg_files' = <<>>
                       /\ tmp' = tmp
                  ELSE /\ catchment_id' = catchment_id
                       /\ pc' = "read_gpkg"
                       /\ listing' = names
                       /\ gpkg_files' = files
                       /\ tmp' = tmp \cup {TemporaryDirectory(idx)}
    /\ merged_geom' = <<>>
    /\ outcomes' = <<>>
    /\ k' = 1
    /\ UNCHANGED <<discovery_vars, nwm_vars, fn_vars, first_run, hand_version_id, nwm_version_id, db, tx, catchment_dirs, idx,
                   csv_files, df, rem_files, catchment_files, rem_raster_ids, j,
                   stmts>>

\* The listing raises (storage error).
ListGpkgRaises ==
    /\ pc = "load_catchment_geometry"
    /\ Raise("load_catchment_geometry")

\* One pass of `for gpkg in gpkg_files`: the file is downloaded if it is on
\* S3, read, and merged unless it is empty; a download or read error is
\* caught and the file is skipped.  After the last file the with block of
\* the TemporaryDirectory is left.
ReadGpkg ==
    /\ pc = "read_gpkg"
    /\ k <= Len(gpkg_files)
    /\ \E kind \in ReadKinds(gpkg_files[k]) :
        /\ merged_geom' = AfterFile(merged_geom, catchment_dir,
                                    gpkg_files[k][2].n, kind)
        /\ units' = [units EXCEPT ![idx].nonempty =
                        IF kind = "nonempty" THEN @ + 1 ELSE @]
        /\ outcomes' = Append(outcomes, kind)
        /\ LET tmpdir == TemporaryDirectory(idx)
               held == tmp \cup Downloaded(gpkg_files[k], tmpdir, kind)
           IN  tmp' = IF k = Len(gpkg_files)
                          THEN TemporaryDirectoryExit(held, tmpdir)
                          ELSE held
    /\ k' = k + 1
    /\ UNCHANGED <<discovery_vars, nwm_vars, fn_vars, first_run, hand_version_id, nwm_version_id, db, tx, pc, catchment_dirs, idx,
                   catchment_id, listing, gpkg_files, csv_files, df, rem_files,
                   catchment_files, rem_raster_ids, j, stmts>>

\* if merged_geom is None: return None.
ReturnNoGeometry ==
    /\ pc = "read_gpkg"
    /\ k > Len(gpkg_files)
    /\ merged_geom = <<>>
    /\ catchment_id' = None
    /\ pc' = AfterLoadCatchmentGeometry(None)
    /\ outcomes' = <<>>
    /\ ResetLocals
    /\ UNCHANGED <<discovery_vars, nwm_vars, fn_vars, first_run, tmp, hand_version_id, nwm_version_id, db, tx, catchment_dirs, idx,
                   stmts, units>>

\* The id and the INSERT INTO Catchments; the id is returned and assigned.
InsertCatchment ==
    /\ pc = "read_gpkg"
    /\ k > Len(gpkg_files)
    /\ merged_geom # <<>>
    /\ LET text == wkt(merged_geom[1])
           id == _generate_uuid(text)
       IN  /\ ~HasKey(tx[1].Catchments, "catchment_id", id)
           /\ tx' = <<InsertCatchments(tx[1], id, hand_version_id,
                                       ST_GeomFromText(text))>>
           /\ stmts' = Append(stmts, Stmt("INSERT", "Catchments", id))
           /\ catchment_id' = id
           /\ units' = [units EXCEPT ![idx].id = id]
           /\ pc' = AfterLoadCatchmentGeometry(id)
    /\ ResetLocals
    /\ UNCHANGED <<discovery_vars, nwm_vars, fn_vars, first_run, tmp, outcomes, hand_version_id, nwm_version_id, db, catchment_dirs, idx>>

\* The INSERT INTO Catchments raises (a duplicate key, or any other database
\* error): nothing is returned, so the local
\* catchment_id of load_hand_data keeps what it held before.
InsertCatchmentRaises ==
    /\ pc = "read_gpkg"
    /\ k > Len(gpkg_files)
    /\ merged_geom # <<>>
    /\ Raise("load_catchment_geometry")

\* if catchment_id is None: print(...); continue.  The with block is left
\* normally, which commits the (unchanged) transaction.
Skip ==
    /\ pc = "skip"
    /\ db' = ExitWith(db, tx[1], FALSE)
    /\ tx' = <<>>
    /\ units' = [units EXCEPT ![idx].outcome = "skipped"]
    /\ Continue
    /\ UNCHANGED <<discovery_vars, nwm_vars, fn_vars, first_run, tmp, outcomes, hand_version_id, nwm_version_id, catchment_dirs, catchment_id,
                   locals, stmts>>

\* --------------------------------------------------- load_hydrotables
\* csv_files = self._get_files(...); if not csv_files: return.
ListCsv ==
    /\ pc = "load_hydrotables"
    /\ \E n \in 0..MaxCsv :
        LET names == Names("hydroTable_", ".csv", n) \o OtherFiles
            files == _get_files(catchment_dir, names, ".csv", "hydroTable_")
        IN  IF files = <<>>
                THEN listing' = <<>> /\ csv_files' = <<>> /\ pc' = "load_rasters"
                ELSE listing' = names /\ csv_files' = files /\ pc' = "read_csv"
    /\ k' = 1
    /\ outcomes' = <<>>
    /\ UNCHANGED <<discovery_vars, nwm_vars, fn_vars, first_run, tmp, hand_version_id, nwm_version_id, db, tx, catchment_dirs, idx,
                   catchment_id, gpkg_files, merged_geom, df, rem_files,
                   catchment_files, rem_raster_ids, j, stmts, units>>

ListCsvRaises ==
    /\ pc = "load_hydrotables"
    /\ Raise("load_hydrotables")

\* df = self._read_csv(csv_path): the table read, of any number of rows.
ReadCsv ==
    /\ pc = "read_csv"
    /\ k <= Len(csv_files)
    /\ \E r \in 0..MaxRows :
        /\ df' = [n \in 1..r |-> HydroRow(csv_files[k][2].n, n)]
        /\ units' = [units EXCEPT ![idx].csv = @ + 1, ![idx].rows = @ + r]
    /\ j' = 1
    /\ pc' = "insert_hydro"
    /\ tmp' = _read_csv(tmp, csv_files[k], idx)
    /\ UNCHANGED <<discovery_vars, nwm_vars, fn_vars, first_run, outcomes, hand_version_id, nwm_version_id, db, tx, catchment_dirs, idx,
                   catchment_id, listing, gpkg_files, merged_geom, csv_files,
                   rem_files, catchment_files, rem_raster_ids, k, stmts>>

\* _read_csv raises: printed and raised again.
ReadCsvRaises ==
    /\ pc = "read_csv"
    /\ k <= Len(csv_files)
    /\ RaiseLeaving("load_hydrotables", _read_csv(tmp, csv_files[k], idx))

\* One pass of `for _, row in df.iterrows()` of _insert_hydro_records.
InsertHydroRecord ==
    /\ pc = "insert_hydro"
    /\ j <= Len(df)
    /\ tx' = <<InsertHydrotables(tx[1],
                  _prepare_hydro_params(df[j], catchment_id, hand_version_id,
                                        nwm_version_id))>>
    /\ stmts' = Append(stmts, Stmt("INSERT", "Hydrotables", catchment_id))
    /\ j' = j + 1
    /\ UNCHANGED <<discovery_vars, nwm_vars, fn_vars, first_run, tmp, outcomes, hand_version_id, nwm_version_id, db, pc, catchment_dirs, idx,
                   catchment_id, listing, gpkg_files, merged_geom, csv_files, df,
                   rem_files, catchment_files, rem_raster_ids, k, units>>

\* The INSERT of row j raises, after rows 1..j-1 went into the transaction.
InsertHydroRecordRaises ==
    /\ pc = "insert_hydro"
    /\ j <= Len(df)
    /\ Raise("load_hydrotables")

\* The rows of one file are done: the next file, or load_hydrotables returns.
NextCsv ==
    /\ pc = "insert_hydro"
    /\ j > Len(df)
    /\ IF k = Len(csv_files)
          THEN pc' = "load_rasters" /\ ResetLocals
          ELSE /\ pc' = "read_csv"
               /\ k' = k + 1
               /\ df' = <<>>
               /\ j' = 1
               /\ UNCHANGED <<listing, gpkg_files, merged_geom, csv_files, rem_files,
                              catchment_files, rem_raster_ids>>
    /\ UNCHANGED <<discovery_vars, nwm_vars, fn_vars, first_run, tmp, outcomes, hand_version_id, nwm_version_id, db, tx, catchment_dirs, idx,
                   catchment_id, stmts, units>>

\* ------------------------------------------------------- load_rasters
\* rem_files = self._get_files(...); if not rem_files: return.  The
\* directory's rasters of both kinds are drawn here; the second listing of
\* load_rasters sees the same directory.
ListRem ==
    /\ pc = "load_rasters"
    /\ \E n \in 0..MaxRem, m \in 0..MaxCr :
        LET names == Names("rem_zeroed_", ".tif", n)
                     \o Names("gw_catchments", ".tif", m) \o OtherFiles
            files == _get_files(catchment_dir, names, ".tif", "rem_zeroed_")
        IN  /\ listing' = names
            /\ rem_files' = files
            /\ units' = [units EXCEPT ![idx].rem = n, ![idx].cr = m]
            /\ pc' = IF files = <<>> THEN "commit" ELSE "list_catchment_rasters"
    /\ UNCHANGED <<discovery_vars, nwm_vars, fn_vars, first_run, tmp, outcomes, hand_version_id, nwm_version_id, db, tx, catchment_dirs, idx,
                   catchment_id, gpkg_files, merged_geom, csv_files, df,
                   catchment_files, rem_raster_ids, k, j, stmts>>

ListRemRaises ==
    /\ pc = "load_rasters"
    /\ Raise("load_rasters")

\* catchment_files = self._get_files(catchment_dir, ".tif", "gw_catchments").
ListCatchmentRasters ==
    /\ pc = "list_catchment_rasters"
    /\ catchment_files' = _get_files(catchment_dir, listing, ".tif", "gw_catchments")
    /\ rem_raster_ids' = <<>>
    /\ k' = 1
    /\ pc' = "insert_rem"
    /\ UNCHANGED <<discovery_vars, nwm_vars, fn_vars, first_run, tmp, outcomes, hand_version_id, nwm_version_id, db, tx, catchment_dirs, idx,
                   catchment_id, listing, gpkg_files, merged_geom, csv_files, df,
                   rem_files, j, stmts, units>>

ListCatchmentRastersRaises ==
    /\ pc = "list_catchment_rasters"
    /\ Raise("load_rasters")

\* Mutant of AfterRem: the catchment rasters are never inserted.
AfterRemSkipsCatchmentRasters(files) == "commit"

\* Where load_rasters goes once _insert_rem_rasters has returned.
AfterRem(files) ==
    IF files # <<>> THEN "insert_catchment_rasters" ELSE "commit"

\* One pass of `for file_path in files` of _insert_rem_rasters.
InsertRemRaster ==
    /\ pc = "insert_rem"
    /\ k <= Len(rem_files)
    /\ LET file_id == _generate_uuid(rem_files[k])
       IN  /\ ~HasKey(tx[1].HAND_REM_Rasters, "rem_raster_id", file_id)
           /\ rem_raster_ids' = Append(rem_raster_ids, file_id)
           /\ tx' = <<InsertRemRasters(tx[1], file_id, catchment_id,
                                       hand_version_id, rem_files[k])>>
           /\ stmts' = Append(stmts, Stmt("INSERT", "HAND_REM_Rasters", catchment_id))
    /\ IF k = Len(rem_files)
          THEN k' = 1 /\ pc' = AfterRem(catchment_files)
          ELSE k' = k + 1 /\ pc' = pc
    /\ UNCHANGED <<discovery_vars, nwm_vars, fn_vars, first_run, tmp, outcomes, hand_version_id, nwm_version_id, db, catchment_dirs, idx,
                   catchment_id, listing, gpkg_files, merged_geom, csv_files, df,
                   rem_files, catchment_files, j, units>>

InsertRemRasterRaises ==
    /\ pc = "insert_rem"
    /\ k <= Len(rem_files)
    /\ Raise("load_rasters")

\* One pass of `for file_path in files` of _insert_catchment_rasters.
InsertCatchmentRaster ==
    /\ pc = "insert_catchment_rasters"
    /\ k <= Len(catchment_files)
    /\ LET catchment_raster_id == _generate_uuid(catchment_files[k])
       IN  IF rem_raster_ids # <<>>
           THEN /\ ~HasKey(tx[1].HAND_Catchment_Rasters, "catchment_raster_id",
                           catchment_raster_id)
                /\ tx' = <<InsertCatchmentRasters(tx[1], catchment_raster_id,
                                  rem_raster_ids[1], catchment_files[k])>>
                /\ stmts' = Append(stmts,
                      Stmt("INSERT", "HAND_Catchment_Rasters", rem_raster_ids[1]))
           ELSE UNCHANGED <<tx, stmts>>
    /\ IF k = Len(catchment_files)
          THEN k' = 1 /\ pc' = "commit"
          ELSE k' = k + 1 /\ pc' = pc
    /\ UNCHANGED <<discovery_vars, nwm_vars, fn_vars, first_run, tmp, outcomes, hand_version_id, nwm_version_id, db, catchment_dirs, idx,
                   catchment_id, listing, gpkg_files, merged_geom, csv_files, df,
                   rem_files, catchment_files, rem_raster_ids, j, units>>

InsertCatchmentRasterRaises ==
    /\ pc = "insert_catchment_rasters"
    /\ k <= Len(catchment_files)
    /\ Raise("load_rasters")

\* ------------------------------------- the end of a unit's iteration
\* The with block is left normally: the transaction commits.
Commit ==
    /\ pc = "commit"
    /\ db' = ExitWith(db, tx[1], FALSE)
    /\ tx' = <<>>
    /\ units' = [units EXCEPT ![idx].outcome = "committed"]
    /\ Continue
    /\ ResetLocals
    /\ UNCHANGED <<discovery_vars, nwm_vars, fn_vars, first_run, tmp, outcomes, hand_version_id, nwm_version_id, catchment_dirs, catchment_id,
                   stmts>>

\* What _cleanup_catchment leaves committed: nothing changes for None; else
\* its own transaction deletes and commits.
_cleanup_catchment(committed, catch_id, hand_id) ==
    IF catch_id = None THEN committed
    ELSE ExitWith(committed, CleanupDeletes(committed, 1, catch_id, hand_id), FALSE)

\* The DELETEs _cleanup_catchment issues, as logged.
CleanupStmts(catch_id) ==
    IF catch_id = None THEN <<>>
    ELSE [n \in 1..Len(CleanupTables) |-> Stmt("DELETE", CleanupTables[n], catch_id)]

\* except Exception: self._cleanup_catchment(catchment_id); continue.
\* catchment_id is whatever the local holds at this point.
ExceptCleanup ==
    /\ pc = "except"
    /\ catchment_id # Unbound
    /\ db' = _cleanup_catchment(db, catchment_id, hand_version_id)
    /\ stmts' = stmts \o CleanupStmts(catchment_id)
    /\ Continue
    /\ UNCHANGED <<discovery_vars, nwm_vars, fn_vars, first_run, tmp, outcomes, hand_version_id, nwm_version_id, tx, catchment_dirs,
                   catchment_id, locals, units>>

\* except Exception: the local catchment_id was never assigned, so reading
\* it raises UnboundLocalError inside the handler, which leaves load_hand_data.
ExceptUnbound ==
    /\ pc = "except"
    /\ catchment_id = Unbound
    /\ pc' = "raised"
    /\ UNCHANGED <<discovery_vars, nwm_vars, fn_vars, first_run, tmp, outcomes, hand_version_id, nwm_version_id, db, tx, catchment_dirs, idx,
                   catchment_id, locals, stmts, units>>

Next ==
    \/ LoadHandData
    \/ BeginUnit
    \/ Return
    \/ ListGpkg
    \/ ListGpkgRaises
    \/ ReadGpkg
    \/ ReturnNoGeometry
    \/ InsertCatchment
    \/ InsertCatchmentRaises
    \/ Skip
    \/ ListCsv
    \/ ListCsvRaises
    \/ ReadCsv
    \/ ReadCsvRaises
    \/ InsertHydroRecord
    \/ InsertHydroRecordRaises
    \/ NextCsv
    \/ ListRem
    \/ ListRemRaises
    \/ ListCatchmentRasters
    \/ ListCatchmentRastersRaises
    \/ InsertRemRaster
    \/ InsertRemRasterRaises
    \/ InsertCatchmentRaster
    \/ InsertCatchmentRasterRaises
    \/ Commit
    \/ ExceptCleanup
    \/ ExceptUnbound

Spec == Init /\ [][Next]_vars

\* ============================================ load_hand_data, run again
\* What the load of one unit commits when nothing raises: the unit holds one
\* geometry file that is not empty, one hydrotable of one row, one REM
\* raster and one catchment raster.
LoadedUnit(tables, directory, hand_id, nwm_ver) ==
    LET geom == MergeFile(<<>>, GeoDataFrame(directory, 1, "nonempty"))
        text == wkt(geom[1])
        id == _generate_uuid(text)
        rem == PathJoin(directory, FileName("rem_zeroed_", 1, ".tif"))
        cr == PathJoin(directory, FileName("gw_catchments", 1, ".tif"))
        t1 == InsertCatchments(tables, id, hand_id, ST_GeomFromText(text))
        t2 == InsertHydrotables(t1,
                  _prepare_hydro_params(HydroRow(1, 1), id, hand_id, nwm_ver))
        t3 == InsertRemRasters(t2, _generate_uuid(rem), id, hand_id, rem)
    IN  InsertCatchmentRasters(t3, _generate_uuid(cr), _generate_uuid(rem), cr)

\* The tables after a run in which the units of committed were loaded and
\* the others were skipped or failed in their own load.
RECURSIVE LoadedUnits(_, _, _, _)
LoadedUnits(tables, run, i, committed) ==
    IF i > run.n THEN tables
    ELSE LoadedUnits(IF i \in committed
                         THEN LoadedUnit(tables, UnitDir(run.hand_dir, i),
                                         "v3.0", "3.0")
                         ELSE tables,
                     run, i + 1, committed)

\* The earlier runs: a root, the number of its units, the units committed.
FirstRuns ==
    {[hand_dir |-> d, n |-> n, committed |-> c] :
        d \in HandDirs, n \in {MaxUnits}, c \in SUBSET (1..MaxUnits)}

\* The database the earlier run left.
FirstRunDatabase(run) ==
    LoadedUnits(_initialize_hand_version(EmptyTables, "v3.0"), run, 1, run.committed)

\* A loader of the same hand version is constructed on the database of an
\* earlier run; load_hand_data has not been called on it yet.
InitRerun ==
    /\ Constructed
    /\ first_run \in {<<run>> : run \in FirstRuns}
    /\ db = _initialize_hand_version(FirstRunDatabase(first_run[1]), hand_version_id)
    /\ tx = <<>>
    /\ pc = "start"
    /\ catchment_dirs = <<>>
    /\ idx = 1
    /\ catchment_id = Unbound
    /\ listing = <<>>
    /\ gpkg_files = <<>>
    /\ merged_geom = <<>>
    /\ csv_files = <<>>
    /\ df = <<>>
    /\ rem_files = <<>>
    /\ catchment_files = <<>>
    /\ rem_raster_ids = <<>>
    /\ k = 1
    /\ j = 1
    /\ stmts = <<>>
    /\ units = <<>>
    /\ tmp = {}
    /\ outcomes = <<>>
    /\ DiscoveryIdle
    /\ NwmIdle
    /\ FnIdle

SpecRerun == InitRerun /\ [][Next]_vars

\* ================================================== _get_catchment_dirs
\* Strings are sequences of characters here, so that split, join,
\* isdigit, len and prefix matching work on them as in the code.
Digits == {"0", "1", "2", "3", "4", "5", "6", "7", "8", "9"}

\* The path segments the trees are built from.
SegHuc == <<"1", "2", "3", "4", "5", "6", "7", "8">>
SegSevenDigits == <<"1", "2", "3", "4", "5", "6", "7">>
SegEightChars == <<"1", "2", "3", "4", "5", "6", "7", "a">>
SegBranches == <<"b", "r", "a", "n", "c", "h", "e", "s">>
SegNope == <<"n", "o", "p", "e">>
SegUnitA == <<"u", "n", "i", "t", "A">>
SegUnitB == <<"u", "n", "i", "t", "B">>
SegUnitC == <<"u", "n", "i", "t", "C">>
SegSub == <<"s", "u", "b">>
SegFile == <<"f", ".", "t", "i", "f">>
SegNested == <<"x">>

\* str.split(sep).
RECURSIVE Split(_, _)
Split(str, sep) ==
    IF \E i \in 1..Len(str) : str[i] = sep
    THEN LET i == CHOOSE n \in 1..Len(str) :
                     str[n] = sep /\ \A q \in 1..(n - 1) : str[q] # sep
         IN  <<SubSeq(str, 1, i - 1)>> \o Split(SubSeq(str, i + 1, Len(str)), sep)
    ELSE <<str>>

\* sep.join(parts), which is also os.path.join for relative segments.
RECURSIVE Join(_, _)
Join(parts, sep) ==
    IF parts = <<>> THEN <<>>
    ELSE IF Len(parts) = 1 THEN parts[1]
    ELSE parts[1] \o <<sep>> \o Join(Tail(parts), sep)

\* str.startswith(prefix).
StartsWith(str, prefix) ==
    Len(prefix) <= Len(str) /\ SubSeq(str, 1, Len(prefix)) = prefix

\* part.isdigit() and len(part) == 8.
IsHuc(part) ==
    /\ part # <<>>
    /\ \A i \in 1..Len(part) : part[i] \in Digits
    /\ Len(part) = 8

\* The keys of the bucket for a tree of files given relative to the root.
BucketKeys(tree) == {Join(<<S3Prefix>> \o f, "/") : f \in tree}

\* list_s3_objects: the keys of the bucket that start with the prefix.
list_s3_objects(keys, s3_prefix) ==
    {key \in keys : StartsWith(key, parse_s3_path(s3_prefix)[2])}

\* Mutant of IsUnitAt: the 'branches' test is missing.
IsUnitAtAnyParent(parts, i) == IsHuc(parts[i]) /\ i + 1 <= Len(parts)

\* The test of the S3 branch for position i of parts[:-2].
IsUnitAt(parts, i) ==
    /\ IsHuc(parts[i])
    /\ i + 1 <= Len(parts)
    /\ parts[i + 1] = SegBranches

\* The S3 branch of _get_catchment_dirs.
S3CatchmentDirs(keys, base_dir) ==
    LET objects == list_s3_objects(keys, base_dir)
        found(obj) ==
            LET parts == Split(obj, "/")
            IN  {Join(SubSeq(parts, 1, i + 2), "/") :
                    i \in {n \in 1..(Len(parts) - 2) : IsUnitAt(parts, n)}}
        dirs == {d \in UNION {found(obj) : obj \in objects} : d # <<>>}
    IN  {S3Uri(parse_s3_path(base_dir)[1], d) : d \in dirs}

\* os.listdir and os.path.isdir on a tree of files given by their segments.
Below(tree, dir) ==
    {f \in tree : Len(f) > Len(dir) /\ SubSeq(f, 1, Len(dir)) = dir}
listdir(tree, dir) == {f[Len(dir) + 1] : f \in Below(tree, dir)}
isdir(tree, dir) == Below(tree, dir) # {}

\* The local branch of _get_catchment_dirs.
LocalCatchmentDirs(tree, base_dir) ==
    LET hucs == {d \in listdir(tree, <<>>) : isdir(tree, <<d>>) /\ IsHuc(d)}
        withBranches == {d \in hucs : isdir(tree, <<d, SegBranches>>)}
    IN  UNION {{LocalPath(Join(<<base_dir, d, SegBranches, cd>>, "/")) :
                    cd \in {c \in listdir(tree, <<d, SegBranches>>) :
                                isdir(tree, <<d, SegBranches, c>>)}} :
               d \in withBranches}

\* _get_catchment_dirs.
_get_catchment_dirs(tree, base_dir) ==
    IF is_s3_path(base_dir)
        THEN S3CatchmentDirs(BucketKeys(tree), base_dir)
        ELSE LocalCatchmentDirs(tree, base_dir.path)

\* The files a tree can hold.
PossibleFiles ==
    { <<SegHuc, SegBranches, SegUnitA, SegFile>>,
      <<SegHuc, SegBranches, SegUnitA, SegSub, SegFile>>,
      <<SegHuc, SegNope, SegUnitB, SegFile>>,
      <<SegHuc, SegBranches, SegUnitC, SegFile>>,
      <<SegSevenDigits, SegBranches, SegUnitA, SegFile>>,
      <<SegEightChars, SegBranches, SegUnitB, SegFile>>,
      <<SegHuc, SegBranches, SegFile>>,
      <<SegNested, SegHuc, SegBranches, SegUnitC, SegFile>> }

InitDiscovery ==
    /\ Constructed
    /\ FreshDatabase
    /\ HandIdle
    /\ NoFirstRun
    /\ NwmIdle
    /\ FnIdle
    /\ fs \in SUBSET PossibleFiles
    /\ s3_dirs = <<>>
    /\ local_dirs = <<>>
    /\ unit_files = <<>>

\* _get_catchment_dirs on the tree as an S3 prefix.
DiscoverS3 ==
    /\ s3_dirs = <<>>
    /\ s3_dirs' = <<_get_catchment_dirs(fs, S3Uri(S3Bucket, S3Prefix))>>
    /\ UNCHANGED <<hand_version_id, nwm_version_id, db, first_run, hand_vars, nwm_vars, fn_vars, fs,
                   local_dirs, unit_files>>

\* _get_catchment_dirs on the tree as a local directory.
DiscoverLocal ==
    /\ local_dirs = <<>>
    /\ local_dirs' = <<_get_catchment_dirs(fs, LocalPath(LocalRoot))>>
    /\ UNCHANGED <<hand_version_id, nwm_version_id, db, first_run, hand_vars, nwm_vars, fn_vars, fs,
                   s3_dirs, unit_files>>

NextDiscovery ==
    \/ DiscoverS3
    \/ DiscoverLocal

SpecDiscovery == InitDiscovery /\ [][NextDiscovery]_vars

\* =========================================================== _get_files
\* _get_files on paths written out as strings, for the units that
\* _get_catchment_dirs returns.
\* The names of the units and of the files in them.
SegUnit1 == <<"1">>
SegUnit10 == <<"1", "0">>
SegUnit2 == <<"2">>
SegGpkg1 == <<"g", "w", "_", "c", "a", "t", "c", "h", "m", "e", "n", "t", "s", "_", "1", ".", "g", "p", "k", "g">>
SegGpkg10 == <<"g", "w", "_", "c", "a", "t", "c", "h", "m", "e", "n", "t", "s", "_", "1", "0", ".", "g", "p", "k", "g">>
SegCsv1 == <<"h", "y", "d", "r", "o", "T", "a", "b", "l", "e", "_", "1", ".", "c", "s", "v">>
SegRem10 == <<"r", "e", "m", "_", "z", "e", "r", "o", "e", "d", "_", "1", "0", ".", "t", "i", "f">>
SegCr2 == <<"g", "w", "_", "c", "a", "t", "c", "h", "m", "e", "n", "t", "s", "_", "2", ".", "t", "i", "f">>
SegRem1 == <<"r", "e", "m", "_", "z", "e", "r", "o", "e", "d", "_", "1", ".", "t", "i", "f">>
SegNotes == <<"n", "o", "t", "e", "s", ".", "t", "x", "t">>

\* The extension and the pattern of each call of _get_files in the loader.
ExtGpkg == <<".", "g", "p", "k", "g">>
ExtCsv == <<".", "c", "s", "v">>
ExtTif == <<".", "t", "i", "f">>
PatGwCatchments == <<"g", "w", "_", "c", "a", "t", "c", "h", "m", "e", "n", "t", "s">>
PatHydroTable == <<"h", "y", "d", "r", "o", "T", "a", "b", "l", "e", "_">>
PatRemZeroed == <<"r", "e", "m", "_", "z", "e", "r", "o", "e", "d", "_">>
FileKinds ==
    { <<ExtGpkg, PatGwCatchments>>, <<ExtCsv, PatHydroTable>>,
      <<ExtTif, PatRemZeroed>>, <<ExtTif, PatGwCatchments>> }

\* str.endswith(suffix) and `pattern in str`.
EndsWith(str, suffix) ==
    /\ Len(suffix) <= Len(str)
    /\ SubSeq(str, Len(str) - Len(suffix) + 1, Len(str)) = suffix
Contains(str, pattern) ==
    \E i \in 1..(Len(str) - Len(pattern) + 1) :
        SubSeq(str, i, i + Len(pattern) - 1) = pattern

\* The S3 branch of _get_files: the keys listed under the directory's key
\* as prefix.
S3Files(keys, directory, extension, pattern) ==
    { S3Uri(parse_s3_path(directory)[1], key) :
        key \in {o \in list_s3_objects(keys, directory) :
                    EndsWith(o, extension) /\ Contains(o, pattern)} }

\* The local branch of _get_files: the entries of the directory itself.
LocalFiles(tree, directory, extension, pattern) ==
    LET parts == Split(directory.path, "/")
        rel == SubSeq(parts, Len(Split(LocalRoot, "/")) + 1, Len(parts))
    IN  { LocalPath(Join(<<directory.path, f>>, "/")) :
            f \in {e \in listdir(tree, rel) :
                      EndsWith(e, extension) /\ Contains(e, pattern)} }

\* _get_files on a directory of the tree.
GetFiles(tree, directory, extension, pattern) ==
    IF is_s3_path(directory)
        THEN S3Files(BucketKeys(tree), directory, extension, pattern)
        ELSE LocalFiles(tree, directory, extension, pattern)

\* The files a tree of units can hold.
PossibleUnitFiles ==
    { <<SegHuc, SegBranches, SegUnit1, SegGpkg1>>,
      <<SegHuc, SegBranches, SegUnit1, SegCsv1>>,
      <<SegHuc, SegBranches, SegUnit1, SegNotes>>,
      <<SegHuc, SegBranches, SegUnit1, SegSub, SegRem1>>,
      <<SegHuc, SegBranches, SegUnit10, SegGpkg10>>,
      <<SegHuc, SegBranches, SegUnit10, SegRem10>>,
      <<SegHuc, SegBranches, SegUnit2, SegCr2>> }

InitFiles ==
    /\ Constructed
    /\ FreshDatabase
    /\ HandIdle
    /\ NoFirstRun
    /\ NwmIdle
    /\ FnIdle
    /\ fs \in SUBSET PossibleUnitFiles
    /\ s3_dirs = <<>>
    /\ local_dirs = <<>>
    /\ unit_files = <<>>

\* self._get_files(catchment_dir, extension, pattern) for a unit that
\* _get_catchment_dirs returned, on either backend.
CallGetFiles ==
    /\ \E dirs \in {s3_dirs, local_dirs} :
          /\ dirs # <<>>
          /\ \E directory \in dirs[1], kind \in FileKinds :
                unit_files' =
                    <<[directory |-> directory,
                       units     |-> dirs[1],
                       extension |-> kind[1],
                       pattern   |-> kind[2],
                       files     |-> GetFiles(fs, directory, kind[1], kind[2])]>>
    /\ UNCHANGED <<hand_version_id, nwm_version_id, db, first_run, hand_vars, nwm_vars, fn_vars, fs,
                   s3_dirs, local_dirs>>

NextFiles ==
    \/ DiscoverS3
    \/ DiscoverLocal
    \/ CallGetFiles

SpecFiles == InitFiles /\ [][NextFiles]_vars

\* ==================================================== load_nwm_features
\* The feature ids the records of a file are drawn from.
FeatureIds == {"f1", "f2"}

\* A record of the nwm_streams layer.
NwmRecord(id) == [ID |-> id, geometry |-> {<<"nwm", id>>}]

\* The NWM_Features row the INSERT of load_nwm_features writes for a record.
NwmFeaturesRow(row, ver_id) ==
    [ nwm_feature_id |-> row.ID,
      nwm_version_id |-> ver_id,
      geometry       |-> ST_GeomFromText(wkt(row.geometry)) ]

\* INSERT INTO NWM_Features ... ON CONFLICT (nwm_feature_id, nwm_version_id)
\* DO NOTHING: the table afterwards, and result.rowcount.
InsertNwmFeature(table, new) ==
    IF \E r \in table : /\ r.nwm_feature_id = new.nwm_feature_id
                        /\ r.nwm_version_id = new.nwm_version_id
        THEN [table |-> table, rowcount |-> 0]
        ELSE [table |-> table \cup {new}, rowcount |-> 1]

\* The body of `with self.engine.begin() as conn` of load_nwm_features: the
\* table and dropped_count after the records from n on.
RECURSIVE InsertNwmFeatures(_, _, _, _, _)
InsertNwmFeatures(table, rows, n, ver_id, dropped) ==
    IF n > Len(rows) THEN [table |-> table, dropped_count |-> dropped]
    ELSE LET result == InsertNwmFeature(table, NwmFeaturesRow(rows[n], ver_id))
         IN  InsertNwmFeatures(result.table, rows, n + 1, ver_id,
                               IF result.rowcount = 0 THEN dropped + 1 ELSE dropped)

\* temp_load_gpkg: the file is downloaded when it is on S3 and read; what
\* gpd.read_file returns is returned, a GeoDataFrame.
temp_load_gpkg(uri, records) ==
    [type |-> "GeoDataFrame", downloaded |-> is_s3_path(uri), rows |-> records]

\* Whether `with value as ...` can enter: the type has __enter__ and __exit__.
IsContextManager(value) == value.type = "ContextManager"

\* The sequences of at most n elements of S.
SeqsUpTo(S, n) == UNION {[1..m -> S] : m \in 0..n}

\* A loader constructed on a database that may hold features of earlier
\* runs, and the file it is given.
InitNwm ==
    /\ Constructed
    /\ \E earlier \in SUBSET FeatureIds :
          db = [_initialize_hand_version(EmptyTables, "v3.0") EXCEPT
                   !.NWM_Features =
                       {NwmFeaturesRow(NwmRecord(id), "3.0") : id \in earlier}]
    /\ HandIdle
    /\ NoFirstRun
    /\ DiscoveryIdle
    /\ FnIdle
    /\ gpkg_uri \in {S3Uri(S3Bucket, <<"n", "w", "m">>), LocalPath(<<"n", "w", "m">>)}
    /\ nwm_streams \in {[i \in DOMAIN ids |-> NwmRecord(ids[i])] :
                           ids \in SeqsUpTo(FeatureIds, MaxFeatures)}
    /\ loaded = <<>>
    /\ dropped_count = 0
    /\ npc = "idle"

\* load_nwm_features is called.
LoadNwmFeatures ==
    /\ npc = "idle"
    /\ npc' = "temp_load_gpkg"
    /\ UNCHANGED <<hand_version_id, nwm_version_id, db, first_run, hand_vars, discovery_vars, fn_vars,
                   gpkg_uri, nwm_streams, loaded, dropped_count>>

\* self.temp_load_gpkg(gpkg_path) returns.
TempLoadGpkg ==
    /\ npc = "temp_load_gpkg"
    /\ loaded' = <<temp_load_gpkg(gpkg_uri, nwm_streams)>>
    /\ npc' = "with"
    /\ UNCHANGED <<hand_version_id, nwm_version_id, db, first_run, hand_vars, discovery_vars, fn_vars,
                   gpkg_uri, nwm_streams, dropped_count>>

\* `with <what temp_load_gpkg returned> as gdf`: a GeoDataFrame is no
\* context manager, so the with statement raises before its body runs.
WithRaises ==
    /\ npc = "with"
    /\ ~IsContextManager(loaded[1])
    /\ npc' = "raised"
    /\ UNCHANGED <<hand_version_id, nwm_version_id, db, first_run, hand_vars, discovery_vars, fn_vars,
                   gpkg_uri, nwm_streams, loaded, dropped_count>>

NextNwm ==
    \/ LoadNwmFeatures
    \/ TempLoadGpkg
    \/ WithRaises

SpecNwm == InitNwm /\ [][NextNwm]_vars

\* ===================================================== the id functions
\* The loaders the id functions are called on, and the strings they get:
\* the text of a geometry, the path of a raster file, any other string.
HandVersions == {"v3.0", "v4.0"}
NwmVersions == {"3.0", "2.1"}
InputStrings ==
    { "POLYGON ((0 0, 1 0, 1 1, 0 0))", "12345678/branches/0/rem_zeroed_0.tif", "" }

\* A loader of any versions, constructed on an empty database.
AnyLoader ==
    /\ hand_version_id \in HandVersions
    /\ nwm_version_id \in NwmVersions
    /\ db = _initialize_hand_version(EmptyTables, hand_version_id)

InitIdentity ==
    /\ AnyLoader
    /\ HandIdle
    /\ NoFirstRun
    /\ DiscoveryIdle
    /\ NwmIdle
    /\ FnIdle

\* What is recorded of one call.
Call(fn, input, result) == [fn |-> fn, input |-> input, result |-> result]

\* self.generate_deterministic_uuid(input_string).
GenerateDeterministicUuid ==
    /\ Len(calls) < MaxCalls
    /\ \E input_string \in InputStrings :
          calls' = Append(calls, Call("generate_deterministic_uuid", input_string,
                                      generate_deterministic_uuid(input_string)))
    /\ UNCHANGED <<hand_version_id, nwm_version_id, db, first_run, hand_vars, discovery_vars,
                   nwm_vars, merge_vars, construct_vars, params_vars>>

\* self._generate_uuid(input_str).
GenerateUuid ==
    /\ Len(calls) < MaxCalls
    /\ \E input_str \in InputStrings :
          calls' = Append(calls, Call("_generate_uuid", input_str,
                                      _generate_uuid(input_str)))
    /\ UNCHANGED <<hand_version_id, nwm_version_id, db, first_run, hand_vars, discovery_vars,
                   nwm_vars, merge_vars, construct_vars, params_vars>>

NextIdentity ==
    \/ GenerateDeterministicUuid
    \/ GenerateUuid

SpecIdentity == InitIdentity /\ [][NextIdentity]_vars

\* ================================= the merge loop, in two orders
\* The geometries a row can hold, and the GeoDataFrames a geometry file can
\* read as: no row, one row, or one row for every single cell.
Geometries == (SUBSET (1..MaxCells)) \ {{}}
Frames ==
    {{}} \cup {{g} : g \in Geometries} \cup {{{c} : c \in 1..MaxCells}}

\* The orders a list of n files can be taken in.
Orders(n) ==
    {o \in [1..n -> 1..n] : \A a, b \in 1..n : o[a] = o[b] => a = b}

InitMerge ==
    /\ Constructed
    /\ FreshDatabase
    /\ HandIdle
    /\ NoFirstRun
    /\ DiscoveryIdle
    /\ NwmIdle
    /\ IdentityIdle
    /\ ConstructIdle
    /\ ParamsIdle
    /\ gdfs \in UNION {[1..n -> Frames] : n \in 1..MaxMerge}
    /\ order \in Orders(Len(gdfs))
    /\ merged_ab = <<>>
    /\ merged_ba = <<>>
    /\ mk = 1

\* One pass of `for gpkg in gpkg_files` over files that read, once for the
\* list as given and once for the list in the second order.
MergeNext ==
    /\ mk <= Len(gdfs)
    /\ merged_ab' = MergeFile(merged_ab, gdfs[mk])
    /\ merged_ba' = MergeFile(merged_ba, gdfs[order[mk]])
    /\ mk' = mk + 1
    /\ UNCHANGED <<hand_version_id, nwm_version_id, db, first_run, hand_vars, discovery_vars,
                   nwm_vars, identity_vars, construct_vars, params_vars, gdfs,
                   order>>

NextMerge == MergeNext

SpecMerge == InitMerge /\ [][NextMerge]_vars

\* ========================================= construction of loaders
\* The databases a loader can be constructed on: hand versions registered
\* by earlier runs, in any order, and possibly a catchment of one of them.
PriorVersions == {"v2.0", "v3.0"}
PriorCatchments ==
    {[catchment_id |-> _generate_uuid("POLYGON ((0 0, 1 0, 1 1, 0 0))"),
      hand_version_id |-> "v2.0", geometry |-> {<<0, 0>>}]}
PriorDatabases ==
    {[EmptyTables EXCEPT
         !.Hand_Versions = [i \in DOMAIN vs |-> [hand_version_id |-> vs[i]]],
         !.Catchments = cs] :
       vs \in {v \in SeqsUpTo(PriorVersions, Cardinality(PriorVersions)) :
                  \A a, b \in DOMAIN v : v[a] = v[b] => a = b},
       cs \in SUBSET PriorCatchments}

InitConstruct ==
    /\ hand_version_id \in HandVersions
    /\ nwm_version_id \in NwmVersions
    /\ db0 \in PriorDatabases
    /\ db = db0
    /\ loaders = 0
    /\ HandIdle
    /\ NoFirstRun
    /\ DiscoveryIdle
    /\ NwmIdle
    /\ IdentityIdle
    /\ MergeIdle
    /\ ParamsIdle

\* DatabaseLoader(db_connection_string, hand_version_id, nwm_version_id).
Construct ==
    /\ loaders < MaxLoaders
    /\ db' = _initialize_hand_version(db, hand_version_id)
    /\ loaders' = loaders + 1
    /\ UNCHANGED <<hand_version_id, nwm_version_id, first_run, hand_vars, discovery_vars,
                   nwm_vars, identity_vars, merge_vars, params_vars, db0>>

NextConstruct == Construct

SpecConstruct == InitConstruct /\ [][NextConstruct]_vars

\* ================================================ _prepare_hydro_params
\* The columns _prepare_hydro_params looks up in a row.
HydroColumns ==
    { "HydroID", "feature_id", "order", "Number of Cells",
      "SurfaceArea (m2)", "BedArea (m2)", "TopWidth (m)", "LENGTHKM",
      "AREASQKM", "WettedPerimeter (m)", "HydraulicRadius (m)",
      "WetArea (m2)", "Volume (m3)", "SLOPE", "ManningN", "stage",
      "discharge_cms", "default_discharge_cms", "default_Volume (m3)",
      "default_WetArea (m2)", "default_HydraulicRadius (m)",
      "default_ManningN", "Bathymetry_source", "subdiv_applied",
      "overbank_n", "channel_n", "subdiv_discharge_cms", "calb_applied",
      "LakeID" }

\* The value a column holds in the rows drawn: a number for the two count
\* columns, a boolean for the two flags, a value of its own otherwise.
ColumnValue(c) ==
    IF c \in {"order", "Number of Cells"} THEN 7
    ELSE IF c \in {"subdiv_applied", "calb_applied"} THEN TRUE
    ELSE <<"value of", c>>

\* The row that has exactly the columns of present.
RowWith(present) == [c \in present |-> ColumnValue(c)]

\* The subsets of S of at most n elements.
RECURSIVE SubsetsUpTo(_, _)
SubsetsUpTo(S, n) ==
    IF n = 0 THEN {{}}
    ELSE LET smaller == SubsetsUpTo(S, n - 1)
         IN  smaller \cup {t \cup {x} : t \in smaller, x \in S}

\* The rows drawn: at most MaxMissing columns are missing, or at most
\* MaxMissing columns are present.
HydroRows ==
    {RowWith(HydroColumns \ missing) : missing \in SubsetsUpTo(HydroColumns, MaxMissing)}
    \cup {RowWith(present) : present \in SubsetsUpTo(HydroColumns, MaxMissing)}

\* The catchment ids the rows are prepared for.
CatchmentIds == {_generate_uuid("POLYGON ((0 0, 1 0, 1 1, 0 0))"), _generate_uuid("")}

InitParams ==
    /\ AnyLoader
    /\ HandIdle
    /\ NoFirstRun
    /\ DiscoveryIdle
    /\ NwmIdle
    /\ IdentityIdle
    /\ MergeIdle
    /\ ConstructIdle
    /\ hydro_row \in HydroRows
    /\ hydro_params = <<>>

\* self._prepare_hydro_params(row, catchment_id) returns.
PrepareHydroParams ==
    /\ hydro_params = <<>>
    /\ \E id \in CatchmentIds :
          hydro_params' =
              <<[catchment_id |-> id,
                 returned |-> _prepare_hydro_params(hydro_row, id, hand_version_id,
                                                    nwm_version_id)]>>
    /\ UNCHANGED <<hand_version_id, nwm_version_id, db, first_run, hand_vars, discovery_vars,
                   nwm_vars, identity_vars, merge_vars, construct_vars, hydro_row>>

NextParams == PrepareHydroParams

SpecParams == InitParams /\ [][NextParams]_vars

\* ================================================================ claims
\* The rows of the committed tables that belong to a catchment id, and the
\* catchment raster rows of a unit directory (their paths lie in it).
CatchmentsOf(tables, id) == {r \in tables.Catchments : r.catchment_id = id}

HydrotablesOf(tables, id) ==
    LET mine(r) == r.catchment_id = id IN SelectSeq(tables.Hydrotables, mine)

RemRastersOf(tables, id) == {r \in tables.HAND_REM_Rasters : r.catchment_id = id}

CatchmentRastersOf(tables, directory) ==
    {r \in tables.HAND_Catchment_Rasters : r.raster_path[1] = directory}

\* The unit whose statements stmts holds: the one in progress, or the one
\* whose iteration has just ended.
StmtsUnit == IF pc \in {"for", "done"} THEN idx - 1 ELSE idx

\* The iteration of unit i has ended.
Ended(i) == i < idx

\* C1: atomicity of a catchment load.  Once the iteration of a unit in which
\* load_hydrotables or load_rasters raised has ended, the committed tables
\* hold no Catchments, Hydrotables or HAND_REM_Rasters row of its catchment
\* id and no HAND_Catchment_Rasters row of its directory.
C1_Atomicity ==
    \A i \in DOMAIN units :
        (/\ Ended(i)
         /\ units[i].outcome = "failed"
         /\ units[i].failedIn \in {"load_hydrotables", "load_rasters"})
        => /\ units[i].id # None
           /\ CatchmentsOf(db, units[i].id) = {}
           /\ HydrotablesOf(db, units[i].id) = <<>>
           /\ RemRastersOf(db, units[i].id) = {}
           /\ CatchmentRastersOf(db, catchment_dirs[i]) = {}

\* A unit whose hydrotable load raised on its third row, after the
\* Catchments row and two Hydrotables rows went into the transaction.
C1_Witness ==
    /\ pc = "for"
    /\ idx > 1
    /\ units[idx - 1].failedIn = "load_hydrotables"
    /\ Len(stmts) >= 3
    /\ stmts[1].table = "Catchments"
    /\ stmts[2].table = "Hydrotables"
    /\ stmts[3].table = "Hydrotables"

\* C2: one catchment's failure never aborts the batch: load_hand_data never
\* raises, whatever step of whatever unit fails.
C2_BatchNeverAborts == pc # "raised"

\* C3: the cleanup is scoped to the failing catchment: the rows of a unit
\* that was loaded and committed stay in the committed tables.
C3_CleanupScoped ==
    \A i \in DOMAIN units :
        units[i].outcome = "committed"
        => /\ Cardinality(CatchmentsOf(db, units[i].id)) = 1
           /\ Len(HydrotablesOf(db, units[i].id)) = units[i].rows
           /\ Cardinality(RemRastersOf(db, units[i].id)) = units[i].rem

\* The rows a unit writes when its load commits.
NoRows(tables, i) ==
    /\ CatchmentsOf(tables, units[i].id) = {}
    /\ HydrotablesOf(tables, units[i].id) = <<>>
    /\ RemRastersOf(tables, units[i].id) = {}
    /\ CatchmentRastersOf(tables, catchment_dirs[i]) = {}

AllRows(tables, i) ==
    /\ Cardinality(CatchmentsOf(tables, units[i].id)) = 1
    /\ Len(HydrotablesOf(tables, units[i].id)) = units[i].rows
    /\ Cardinality(RemRastersOf(tables, units[i].id)) = units[i].rem
    /\ Cardinality(CatchmentRastersOf(tables, catchment_dirs[i])) =
          IF units[i].rem = 0 THEN 0 ELSE units[i].cr

\* C4: isolation: in every committed state each unit has none of its rows or
\* all of them, and all of them only when its load committed.
C4_NoneOrAll ==
    \A i \in DOMAIN units :
        \/ NoRows(db, i)
        \/ units[i].outcome = "committed" /\ AllRows(db, i)

\* C5: skip-on-empty: a unit for which the geometry listing returned no file
\* executes no statement, runs neither the hydrotable nor the raster step,
\* is never failed, and the loop goes on past it.
C5_SkipOnEmpty ==
    \A i \in DOMAIN units :
        units[i].gpkg = 0
        => /\ units[i].outcome \in {"in_progress", "skipped"}
           /\ units[i].outcome = "in_progress" => (i = idx /\ pc = "skip")
           /\ units[i].outcome = "skipped" => Ended(i)
           /\ units[i].csv = 0 /\ units[i].rows = 0
           /\ units[i].rem = 0 /\ units[i].cr = 0
           /\ i = StmtsUnit => stmts = <<>>
           /\ NoRows(db, i)

\* A unit without geometry files was skipped and the next unit has begun.
C5_Witness ==
    /\ Len(units) = 2
    /\ units[1].gpkg = 0
    /\ units[1].outcome = "skipped"
    /\ pc = "load_hydrotables"

\* The two units of the end-to-end scenario.
ValidWithRows(u, n) ==
    /\ u.failedIn = "none"
    /\ u.gpkg = 1 /\ u.nonempty = 1
    /\ u.csv = 1 /\ u.rows = n

NoGeometryFiles(u) == u.failedIn = "none" /\ u.gpkg = 0

\* C6: end to end: a batch of a unit with one valid geometry file and a
\* 3-row rating table and a unit without geometry files, in either order,
\* never raises and ends with one Catchments row and 3 Hydrotables rows,
\* all of the first unit, and no row of the second.
C6_EndToEnd ==
    \A a, b \in DOMAIN units :
        (/\ Len(catchment_dirs) = 2
         /\ a # b
         /\ ValidWithRows(units[a], 3)
         /\ NoGeometryFiles(units[b]))
        => /\ pc # "raised"
           /\ pc = "done" =>
                /\ Cardinality(db.Catchments) = 1
                /\ Len(db.Hydrotables) = 3
                /\ Len(HydrotablesOf(db, units[a].id)) = 3
                /\ CatchmentsOf(db, units[a].id) = db.Catchments
                /\ RemRastersOf(db, units[a].id) = db.HAND_REM_Rasters
                /\ CatchmentRastersOf(db, catchment_dirs[b]) = {}

\* The batch has returned with the unit without geometry files first.
C6_Witness ==
    /\ pc = "done"
    /\ Len(units) = 2
    /\ NoGeometryFiles(units[1])
    /\ ValidWithRows(units[2], 3)

\* C8: a Catchments row exists only for a unit with real geometry: every
\* row, committed or in the open transaction, has a geometry that is not
\* empty and the id of a unit that read a non-empty file; a unit all of
\* whose files were empty or unreadable gets no id and executes nothing.
C8_RowOnlyWithGeometry ==
    /\ \A r \in db.Catchments \cup (IF tx = <<>> THEN {} ELSE tx[1].Catchments) :
          /\ r.geometry # {}
          /\ \E i \in DOMAIN units :
                units[i].id = r.catchment_id /\ units[i].nonempty >= 1
    /\ \A i \in DOMAIN units :
          units[i].nonempty = 0
          => /\ units[i].id = None
             /\ NoRows(db, i)
             /\ (i = StmtsUnit /\ units[i].outcome # "failed") => stmts = <<>>

\* One unit committed from two files of which one was not merged, another
\* was skipped although it had geometry files.
C8_Witness ==
    \E a, b \in DOMAIN units :
        /\ units[a].outcome = "committed"
        /\ units[a].gpkg = 2 /\ units[a].nonempty = 1
        /\ units[b].outcome = "skipped"
        /\ units[b].gpkg >= 1

\* The unit whose load has just committed.
JustCommitted(i) ==
    /\ pc \in {"for", "done"}
    /\ i = idx - 1
    /\ i \in DOMAIN units
    /\ units[i].outcome = "committed"

\* C9 as stated: a committed unit has one HAND_REM_Rasters row per REM file
\* and one HAND_Catchment_Rasters row per catchment raster file, for every
\* combination of the two numbers.
C9_OneRowPerFile ==
    \A i \in DOMAIN units :
        JustCommitted(i)
        => /\ Cardinality(RemRastersOf(db, units[i].id)) = units[i].rem
           /\ Cardinality(CatchmentRastersOf(db, catchment_dirs[i])) = units[i].cr

\* C9 amended: one HAND_REM_Rasters row per REM file; one
\* HAND_Catchment_Rasters row per catchment raster file when there is at
\* least one REM file, and none when there is no REM file.
C9_OneRowPerFileGivenRem ==
    \A i \in DOMAIN units :
        JustCommitted(i)
        => /\ Cardinality(RemRastersOf(db, units[i].id)) = units[i].rem
           /\ Cardinality(CatchmentRastersOf(db, catchment_dirs[i])) =
                 IF units[i].rem = 0 THEN 0 ELSE units[i].cr
           /\ \A r \in CatchmentRastersOf(db, catchment_dirs[i]) :
                 \E m \in RemRastersOf(db, units[i].id) :
                     m.rem_raster_id = r.rem_raster_id

\* A unit committed with two REM files and two catchment raster files after
\* one committed with catchment raster files and no REM file.
C9_Witness ==
    /\ pc = "for"
    /\ Len(units) = 2
    /\ units[1].outcome = "committed"
    /\ units[1].rem = 0 /\ units[1].cr >= 1
    /\ units[2].outcome = "committed"
    /\ units[2].rem = 2 /\ units[2].cr = 2

\* The locations of a unit directory under the two roots.
S3Location(dir) == S3Uri(S3Bucket, Join(<<S3Prefix>> \o dir, "/"))
LocalLocation(dir) == LocalPath(Join(<<LocalRoot>> \o dir, "/"))

\* The last segment of the location lies directly below a 'branches' segment
\* that directly follows an 8-digit all-numeric segment.
BelowBranchesOfHuc(location) ==
    LET parts == Split(location.path, "/")
        n == Len(parts)
    IN  /\ n >= 3
        /\ parts[n - 1] = SegBranches
        /\ IsHuc(parts[n - 2])

\* The tree of the claim: 12345678/branches/unitA/... and 12345678/nope/unitB/...
ScenarioTree ==
    /\ <<SegHuc, SegBranches, SegUnitA, SegFile>> \in fs
    /\ <<SegHuc, SegNope, SegUnitB, SegFile>> \in fs

\* C7: discovery correctness: for the tree of the claim both backends
\* return unitA's location and not unitB's, and every location either
\* backend returns is the segment directly below 'branches' below an
\* 8-digit numeric segment.
C7_Discovery ==
    /\ s3_dirs # <<>> =>
          /\ ScenarioTree =>
                /\ S3Location(<<SegHuc, SegBranches, SegUnitA>>) \in s3_dirs[1]
                /\ S3Location(<<SegHuc, SegNope, SegUnitB>>) \notin s3_dirs[1]
          /\ \A loc \in s3_dirs[1] : BelowBranchesOfHuc(loc)
    /\ local_dirs # <<>> =>
          /\ ScenarioTree =>
                /\ LocalLocation(<<SegHuc, SegBranches, SegUnitA>>) \in local_dirs[1]
                /\ LocalLocation(<<SegHuc, SegNope, SegUnitB>>) \notin local_dirs[1]
          /\ \A loc \in local_dirs[1] : BelowBranchesOfHuc(loc)

\* Both backends have run on the tree of the claim and returned unitA.
C7_Witness ==
    /\ ScenarioTree
    /\ s3_dirs # <<>>
    /\ local_dirs # <<>>
    /\ S3Location(<<SegHuc, SegBranches, SegUnitA>>) \in s3_dirs[1]
    /\ LocalLocation(<<SegHuc, SegBranches, SegUnitA>>) \in local_dirs[1]

\* C10: duplicate suppression in load_nwm_features: the loader does not
\* raise, and when it has ended NWM_Features holds the rows it held before
\* and one row for every feature id of the input, with one added to
\* dropped_count for every insert that was suppressed.
C10_DuplicatesSuppressed ==
    /\ npc # "raised"
    /\ npc = "done" =>
          LET streams == {nwm_streams[i].ID : i \in DOMAIN nwm_streams}
          IN  /\ \A id \in streams :
                    Cardinality({r \in db.NWM_Features :
                                    /\ r.nwm_feature_id = id
                                    /\ r.nwm_version_id = nwm_version_id}) = 1
              /\ \E before \in SUBSET db.NWM_Features :
                    LET after == InsertNwmFeatures(before, nwm_streams, 1,
                                                   nwm_version_id, 0)
                    IN  /\ after.table = db.NWM_Features
                        /\ after.dropped_count = dropped_count

C12_MergeOrderIndependent ==
    mk > Len(gdfs) => merged_ab = merged_ba

\* Three non-empty files covering different regions were merged in the
\* order 1, 2, 3 and in the order 3, 1, 2.
C12_Witness ==
    /\ Len(gdfs) = 3
    /\ mk > Len(gdfs)
    /\ order = <<3, 1, 2>>
    /\ \A a \in 1..3 : gdfs[a] # {}
    /\ union_all(gdfs[1]) # union_all(gdfs[2])
    /\ union_all(gdfs[2]) # union_all(gdfs[3])
    /\ union_all(gdfs[1]) # union_all(gdfs[3])
    /\ merged_ab # <<>>

\* C13: temporary-file lifetime: a temporary directory or file exists only
\* while the geometry files of the unit in progress are being read and
\* belongs to that unit; none is left once the loop over the geometry files
\* is over, when the unit is skipped, committed or failed, when the next
\* unit starts, or when load_hand_data has ended.
C13_TmpRemoved ==
    /\ pc # "read_gpkg" => tmp = {}
    /\ (pc = "read_gpkg" /\ k > Len(gpkg_files)) => tmp = {}
    /\ \A f \in tmp : f.dir = idx

\* The second unit of an S3 root has downloaded its first geometry file
\* into its temporary directory, after the first unit downloaded two
\* geometry files and failed in load_hydrotables.
C13_Witness ==
    /\ Len(units) = 2
    /\ pc = "read_gpkg"
    /\ k = 2
    /\ is_s3_path(catchment_dirs[1])
    /\ units[1].outcome = "failed"
    /\ units[1].failedIn = "load_hydrotables"
    /\ units[1].gpkg = 2
    /\ TemporaryDirectory(2) \in tmp
    /\ Cardinality(tmp) = 2

\* The rows of Hand_Versions for a version, and the rows for other versions.
HandVersionRows(tables, version) ==
    LET mine(r) == r.hand_version_id = version
    IN  SelectSeq(tables.Hand_Versions, mine)

OtherHandVersionRows(tables, version) ==
    LET other(r) == r.hand_version_id # version
    IN  SelectSeq(tables.Hand_Versions, other)

\* C14: hand-version registration is idempotent: after any number (at least
\* one) of constructions of a loader with one hand_version_id, Hand_Versions
\* holds exactly one row for it, the rows of the other hand versions are
\* the rows that were there before, and every other table is unchanged.
C14_RegistrationIdempotent ==
    loaders >= 1 =>
        /\ Len(HandVersionRows(db, hand_version_id)) = 1
        /\ OtherHandVersionRows(db, hand_version_id)
              = OtherHandVersionRows(db0, hand_version_id)
        /\ \A t \in DOMAIN db : t # "Hand_Versions" => db[t] = db0[t]

\* Three loaders of a version that was not registered before were
\* constructed on a database that holds another version and a catchment.
C14_Witness ==
    /\ loaders = 3
    /\ HandVersionRows(db0, hand_version_id) = <<>>
    /\ OtherHandVersionRows(db0, hand_version_id) # <<>>
    /\ db0.Catchments # {}

\* C15: raster link invariant: in every committed state every
\* HAND_Catchment_Rasters row has the rem_raster_id of an existing
\* HAND_REM_Rasters row, and that row is the one of the first REM file
\* discovered in the directory the catchment raster lies in.
C15_RasterLink ==
    \A r \in db.HAND_Catchment_Rasters :
        \E m \in db.HAND_REM_Rasters :
            /\ m.rem_raster_id = r.rem_raster_id
            /\ m.raster_path =
                  PathJoin(r.raster_path[1], FileName("rem_zeroed_", 1, ".tif"))

\* The files that read and were not empty, by their position in the list,
\* and the region they cover together.
ReadNonEmpty(o) == {i \in DOMAIN o : o[i] = "nonempty"}
RegionOf(directory, files) == {<<directory, i>> : i \in files}

\* C16: partial-merge tolerance: while the geometry files of a unit are
\* read no download or read error fails the unit, and merged_geom is the
\* union of exactly the files that read and were not empty so far (None if
\* there is none); when load_catchment_geometry has returned an id, at
\* least one file read and was not empty, and the one statement executed
\* is the INSERT of a Catchments row whose geometry is that union.
C16_PartialMerge ==
    /\ pc = "read_gpkg" =>
          /\ units[idx].outcome = "in_progress"
          /\ merged_geom =
                IF ReadNonEmpty(outcomes) = {} THEN <<>>
                ELSE <<RegionOf(catchment_dir, ReadNonEmpty(outcomes))>>
    /\ pc = "load_hydrotables" =>
          /\ ReadNonEmpty(outcomes) # {}
          /\ stmts = <<Stmt("INSERT", "Catchments", catchment_id)>>
          /\ CatchmentsOf(tx[1], catchment_id) =
                {[catchment_id |-> catchment_id,
                  hand_version_id |-> hand_version_id,
                  geometry |-> RegionOf(catchment_dir, ReadNonEmpty(outcomes))]}

\* The Catchments row of a unit was inserted from its second file after the
\* download of its first file failed.
C16_Witness ==
    /\ pc = "load_hydrotables"
    /\ outcomes = <<"download_failed", "nonempty">>
    /\ \E r \in tx[1].Catchments :
          r.catchment_id = catchment_id /\ r.geometry = {<<catchment_dir, 2>>}

\* The same with the failing file last: it could not be read.
C16_WitnessLast ==
    /\ pc = "load_hydrotables"
    /\ outcomes = <<"nonempty", "unreadable">>
    /\ \E r \in tx[1].Catchments :
          r.catchment_id = catchment_id /\ r.geometry = {<<catchment_dir, 1>>}

\* The locations a backend returned, relative to the root it was given.
RelativeTo(locations, root) ==
    {SubSeq(loc.path, Len(root) + 2, Len(loc.path)) : loc \in locations}

\* C17: the two discovery backends are equivalent: for every tree of files,
\* _get_catchment_dirs returns the same set of unit locations, relative to
\* the root, over the local filesystem and over an S3 listing of the tree.
C17_BackendsEquivalent ==
    (s3_dirs # <<>> /\ local_dirs # <<>>) =>
        RelativeTo(s3_dirs[1], S3Prefix) = RelativeTo(local_dirs[1], LocalRoot)

\* The DELETE statements among the statements of the current iteration, and
\* the position of the first of them.
Deletes ==
    LET isDelete(st) == st.op = "DELETE" IN SelectSeq(stmts, isDelete)

FirstDelete ==
    CHOOSE n \in 1..(Len(stmts) + 1) :
        /\ n <= Len(stmts) => stmts[n].op = "DELETE"
        /\ \A m \in 1..(n - 1) : stmts[m].op # "DELETE"

\* C19: cleanup ordering: when control reaches the except clause the load
\* transaction of the failed unit is over and none of its writes is
\* committed; the cleanup's DELETEs come after every statement of the load,
\* outside any load transaction, and are issued in the order Hydrotables,
\* HAND_REM_Rasters, Catchments, all for one catchment id.
C19_CleanupOrdering ==
    /\ pc = "except" =>
          /\ tx = <<>>
          /\ units[idx].outcome = "failed"
          /\ Deletes = <<>>
          /\ NoRows(db, idx)
    /\ Deletes # <<>> =>
          /\ pc \in {"for", "done"}
          /\ tx = <<>>
          /\ units[StmtsUnit].outcome = "failed"
          /\ \A n \in FirstDelete..Len(stmts) : stmts[n].op = "DELETE"
          /\ [n \in 1..Len(Deletes) |-> Deletes[n].table]
                = <<"Hydrotables", "HAND_REM_Rasters", "Catchments">>
          /\ \A n \in 1..Len(Deletes) : Deletes[n].key = Deletes[1].key

\* A unit failed while its second hydrotable row was inserted; its load
\* transaction was rolled back and the cleanup then issued its three
\* DELETEs for the id of that unit.
C19_Witness ==
    /\ pc = "for"
    /\ idx = 2
    /\ units[1].failedIn = "load_hydrotables"
    /\ Len(stmts) = 5
    /\ stmts[2].table = "Hydrotables" /\ stmts[2].op = "INSERT"
    /\ stmts[3].op = "DELETE" /\ stmts[3].key = units[1].id
    /\ stmts[5].op = "DELETE" /\ stmts[5].table = "Catchments"

\* The placeholders of the INSERT of _insert_hydro_records, the column each
\* extracted parameter is read from, and the default of each.
InsertPlaceholders ==
    { "catch_id", "hand_id", "hydro_id", "nwm_ver", "feat_id", "order_id",
      "num_cells", "surf_area", "bed_area", "top_width", "length", "area",
      "wet_perim", "hydraulic_r", "wet_area", "volume", "slope", "manning_n",
      "stage", "discharge", "def_discharge", "def_volume", "def_wet_area",
      "def_hydraulic_r", "def_manning_n", "bath_source", "subdiv_applied",
      "overbank_n", "channel_n", "subdiv_discharge", "calb_applied", "lake_id" }

ColumnOf ==
    ("hydro_id" :> "HydroID") @@
    ("feat_id" :> "feature_id") @@
    ("order_id" :> "order") @@
    ("num_cells" :> "Number of Cells") @@
    ("surf_area" :> "SurfaceArea (m2)") @@
    ("bed_area" :> "BedArea (m2)") @@
    ("top_width" :> "TopWidth (m)") @@
    ("length" :> "LENGTHKM") @@
    ("area" :> "AREASQKM") @@
    ("wet_perim" :> "WettedPerimeter (m)") @@
    ("hydraulic_r" :> "HydraulicRadius (m)") @@
    ("wet_area" :> "WetArea (m2)") @@
    ("volume" :> "Volume (m3)") @@
    ("slope" :> "SLOPE") @@
    ("manning_n" :> "ManningN") @@
    ("stage" :> "stage") @@
    ("discharge" :> "discharge_cms") @@
    ("def_discharge" :> "default_discharge_cms") @@
    ("def_volume" :> "default_Volume (m3)") @@
    ("def_wet_area" :> "default_WetArea (m2)") @@
    ("def_hydraulic_r" :> "default_HydraulicRadius (m)") @@
    ("def_manning_n" :> "default_ManningN") @@
    ("bath_source" :> "Bathymetry_source") @@
    ("subdiv_applied" :> "subdiv_applied") @@
    ("overbank_n" :> "overbank_n") @@
    ("channel_n" :> "channel_n") @@
    ("subdiv_discharge" :> "subdiv_discharge_cms") @@
    ("calb_applied" :> "calb_applied") @@
    ("lake_id" :> "LakeID")

DefaultOf(field) ==
    IF field \in {"order_id", "num_cells"} THEN 0
    ELSE IF field \in {"subdiv_applied", "calb_applied"} THEN FALSE
    ELSE None

\* C20: null-safe hydrotable field extraction: for every row, whatever
\* columns it lacks, _prepare_hydro_params returns a parameter for every
\* placeholder of the INSERT; catch_id, hand_id and nwm_ver are the
\* catchment id given and the loader's versions; every other parameter is
\* the row's value of its column when the row has the column and else its
\* default: 0 for order_id and num_cells, False for subdiv_applied and
\* calb_applied, None for the rest.
C20_NullSafeParams ==
    hydro_params # <<>> =>
        LET p == hydro_params[1].returned
        IN  /\ DOMAIN p = InsertPlaceholders
            /\ DOMAIN ColumnOf = InsertPlaceholders \ {"catch_id", "hand_id", "nwm_ver"}
            /\ p.catch_id = hydro_params[1].catchment_id
            /\ p.hand_id = hand_version_id
            /\ p.nwm_ver = nwm_version_id
            /\ \A field \in DOMAIN ColumnOf :
                  p[field] = IF ColumnOf[field] \in DOMAIN hydro_row
                                 THEN hydro_row[ColumnOf[field]]
                                 ELSE DefaultOf(field)

\* Parameters were prepared from a row that lacks the columns order and
\* LakeID and has all the others.
C20_Witness ==
    /\ hydro_params # <<>>
    /\ DOMAIN hydro_row = HydroColumns \ {"order", "LakeID"}
    /\ hydro_params[1].returned.order_id = 0
    /\ hydro_params[1].returned.lake_id = None
    /\ hydro_params[1].returned.hydro_id = ColumnValue("HydroID")

\* The catchment a row belongs to is in the Catchments table, under the
\* row's hand version.
HasCatchment(tables, r) ==
    \E c \in tables.Catchments :
        c.catchment_id = r.catchment_id /\ c.hand_version_id = r.hand_version_id

\* C23: referential integrity of committed state: in every committed state
\* load_hand_data reaches, through loads that commit, skipped units, failed
\* loads and cleanup passes, every Hydrotables row and every
\* HAND_REM_Rasters row has a Catchments row with its catchment_id and its
\* hand_version_id.
C23_ReferentialIntegrity ==
    /\ \A n \in DOMAIN db.Hydrotables : HasCatchment(db, db.Hydrotables[n])
    /\ \A r \in db.HAND_REM_Rasters : HasCatchment(db, r)

\* A cleanup pass has issued its DELETEs for the second unit, after the
\* first unit committed, and committed rows of both tables are still there.
C23_Witness ==
    /\ Len(units) = 2
    /\ units[1].outcome = "committed"
    /\ units[2].outcome = "failed"
    /\ pc = "for"
    /\ \E n \in DOMAIN stmts : stmts[n].op = "DELETE"
    /\ db.Hydrotables # <<>>
    /\ db.HAND_REM_Rasters # {}

\* Every row the earlier run left committed is in the committed tables as
\* it was.
FirstRunRowsKept ==
    LET before == FirstRunDatabase(first_run[1])
    IN  /\ before.Catchments \subseteq db.Catchments
        /\ before.HAND_REM_Rasters \subseteq db.HAND_REM_Rasters
        /\ before.HAND_Catchment_Rasters \subseteq db.HAND_Catchment_Rasters
        /\ Len(db.Hydrotables) >= Len(before.Hydrotables)
        /\ \A n \in DOMAIN before.Hydrotables :
              db.Hydrotables[n] = before.Hydrotables[n]

\* Every unit whose load committed in this run has its rows in the
\* committed tables.
ThisRunRowsKept ==
    \A i \in DOMAIN units :
        units[i].outcome = "committed"
        => /\ CatchmentsOf(db, units[i].id) # {}
           /\ Len(HydrotablesOf(db, units[i].id)) >= units[i].rows
           /\ Cardinality(RemRastersOf(db, units[i].id)) >= units[i].rem

\* No two Catchments rows have the same catchment_id.
OneRowPerCatchmentId ==
    \A c1, c2 \in db.Catchments : c1.catchment_id = c2.catchment_id => c1 = c2

\* C22: a re-run does not destroy committed data: when load_hand_data runs
\* again with the same hand version over the same units, whatever subset of
\* them the first run committed and whichever units fail in the second, no
\* row committed by a successful catchment load (of the first run or of the
\* second) is deleted or changed, and no two Catchments rows have the same
\* catchment_id.
C22_RerunKeepsCommitted ==
    first_run # <<>> =>
        /\ FirstRunRowsKept
        /\ ThisRunRowsKept
        /\ OneRowPerCatchmentId

\* The part of C22 that is about the rows of the first run only.
RerunKeepsFirstRun ==
    first_run # <<>> => FirstRunRowsKept /\ OneRowPerCatchmentId

\* A second run over a database in which the first run committed the
\* second unit only: the first unit is loaded and committed now, the INSERT
\* INTO Catchments of the second is refused for its key, and after the
\* cleanup pass the rows of the first unit are gone, those of the first run
\* are all there.
RerunDuplicateKeyCleanup ==
    /\ first_run # <<>>
    /\ first_run[1].committed = {2}
    /\ Len(units) = 2
    /\ units[1].outcome = "committed"
    /\ units[2].outcome = "failed"
    /\ units[2].failedIn = "load_catchment_geometry"
    /\ units[2].gpkg = 1
    /\ units[2].nonempty = 1
    /\ HasKey(db.Catchments, "catchment_id",
              _generate_uuid(wkt({<<catchment_dirs[2], 1>>})))
    /\ pc = "for"
    /\ \E n \in DOMAIN stmts : stmts[n].op = "DELETE" /\ stmts[n].key = units[1].id
    /\ CatchmentsOf(db, units[1].id) = {}
    /\ FirstRunRowsKept

\* A path lies inside a directory: same backend and bucket, and the
\* directory's path followed by a separator starts the path.
Inside(path, directory) ==
    /\ path.scheme = directory.scheme
    /\ path.bucket = directory.bucket
    /\ StartsWith(path.path, directory.path \o <<"/">>)

\* C21: files are attributed to the right unit: for every unit location
\* _get_catchment_dirs returns, on both backends, every file _get_files
\* returns for it lies inside that unit's own directory; a file of a
\* sibling unit whose name starts with this unit's name is not returned.
C21_FilesOfOwnUnit ==
    unit_files # <<>> =>
        \A f \in unit_files[1].files : Inside(f, unit_files[1].directory)

\* The same for trees in which no unit's name starts another's: holds.
FilesOfOwnUnitWithoutPrefixNames ==
    (/\ unit_files # <<>>
     /\ \A d1, d2 \in unit_files[1].units :
           StartsWith(d1.path, d2.path) => d1 = d2)
    => \A f \in unit_files[1].files : Inside(f, unit_files[1].directory)

\* Both backends were asked for the geometry files of unit 1 next to unit
\* 10: the local listing returns the file of unit 1 only.
LocalFilesOfOwnUnitReached ==
    /\ unit_files # <<>>
    /\ ~is_s3_path(unit_files[1].directory)
    /\ \E d \in unit_files[1].units : d # unit_files[1].directory
                                        /\ StartsWith(d.path, unit_files[1].directory.path)
    /\ Cardinality(unit_files[1].files) = 1
    /\ unit_files[1].extension = ExtGpkg

====
